---- MODULE Spec2Model ----
(***************************************************************************)
(* A model of the LSM storage engine of simple-database (db-engine):       *)
(* entry codec, MemTable, write-ahead log and its recovery, SSTable        *)
(* writer / reader / index / querier, the Database facade and compaction.  *)
(*                                                                         *)
(* Files are modelled byte for byte: the directory is a function from      *)
(* paths to byte sequences, records are encoded and decoded as the codec   *)
(* does, and offsets are byte offsets.  Buffered writers and readers keep  *)
(* their buffers, so that what is on disk at a crash is what the code had  *)
(* flushed.                                                                *)
(***************************************************************************)
EXTENDS Integers, Sequences, FiniteSets, TLC

(***************************************************************************)
(* Bounds of the model.                                                    *)
(***************************************************************************)
\* Number of decimal digits of every timestamp of a run (the real clock has
\* 16 digits): file names are compared as strings, so the width matters.
ClockDigits == 2
\* Capacity of tokio's BufReader / BufWriter (8192 in the library), scaled
\* down so that a file can outgrow one buffer within the bounds.
BufCapacity == 64
\* The small max_mem_table_size a Database may be configured with.
SmallMaxMemTableSize == 37
\* Number of set / delete calls of a run of the Database facade.
MaxOps == 5
\* Calls and abrupt stops in the specification with abrupt stops.
MaxCrashOps == 3
MaxCrashes == 1
\* SpecCrash: failed I/O operations.
MaxFaults == 1
\* SpecCompact: SSTables in the directory when a compaction fails.
MaxFaultTables == 2
\* Writes and segments in the specification of the log.
MaxWalOps == 3
MaxSegments == 2
\* SpecRotate: complete records in the segments the recovery finds.
MaxRotRecords == 2
\* SSTables written and compaction cycles in the specification of the
\* compaction, and the size thresholds it is run with.
MaxSSTables == 3
MaxCompactions == 1
SmallCompactionSize == 36
LargeCompactionSize == 200
\* SpecSelect: a threshold that is the size of an SSTable of one live key,
\* and the SSTables in the directory.
EqualCompactionSize == 35
MaxSelectTables == 2
\* Calls of the handler of a scan.
MaxScanCalls == 2
\* SSTables written beside the scheduler.
MaxScheduleTables == 1
\* Calls of the Database beside a compaction.
MaxRaceOps == 2
\* SSTables in the directory with a damaged index file.
MaxDamageTables == 1
\* SSTableWriter::set calls and flushes in the specification of the writer.
MaxWriterSets == 4
MaxWriterFlushes == 2
\* MemTable calls in the specification of the MemTable.
MaxMemOps == 6
\* Entries written in the specification of the entry codec.
MaxCodecEntries == 2
\* Changes of the map and persists in the specification of the index.
MaxIndexOps == 3
MaxPersists == 3

(***************************************************************************)
(* Byte strings, options, little-endian integers.                          *)
(***************************************************************************)
None == <<>>
Some(x) == <<x>>
IsSome(o) == o # <<>>
Unwrap(o) == o[1]

Min(a, b) == IF a <= b THEN a ELSE b

\* Keys and values of the runs.
Keys == {<<1>>, <<2>>, <<3>>}
Values == {<<>>, <<7>>}

\* Strict lexicographic order on integer sequences (Vec<u8>, and the digits
\* of a file name): a proper prefix is smaller.
SeqLess(a, b) ==
    \E i \in 1..Len(b) :
        /\ i <= Len(a) + 1
        /\ \A j \in 1..(i - 1) : a[j] = b[j]
        /\ (i > Len(a) \/ a[i] < b[i])

\* Values at or above Huge are not told apart: every length or offset of
\* the model is far below it, so a field that decodes to Huge or more
\* exceeds every file.
Huge == 256 * 256 * 256

RECURSIVE ToLeBytes(_, _)
\* n.to_le_bytes() of a w-byte unsigned integer.
ToLeBytes(n, w) ==
    IF w = 0 THEN <<>> ELSE <<n % 256>> \o ToLeBytes(n \div 256, w - 1)

\* from_le_bytes, saturating at Huge.
FromLeBytes(bs) ==
    IF \E i \in 4..Len(bs) : bs[i] # 0
    THEN Huge
    ELSE bs[1] + 256 * bs[2] + 65536 * bs[3]

\* The n bytes of a file from offset pos (0-based).
Slice(bytes, pos, n) == SubSeq(bytes, pos + 1, pos + n)

RECURSIVE Concat(_)
Concat(chunks) ==
    IF chunks = <<>> THEN <<>> ELSE Head(chunks) \o Concat(Tail(chunks))

(***************************************************************************)
(* Entry codec (entries.rs).                                               *)
(***************************************************************************)
Entry(key, value, timestamp) ==
    [key |-> key, value |-> value, timestamp |-> timestamp]

IsDeleted(e) == ~IsSome(e.value)

\* An Entry::write_to that writes no tombstone flag: a tombstone goes out
\* as a present empty value.
EntryChunksFlagless(e) ==
    << ToLeBytes(Len(e.key), 8), e.key, <<0>> >>
    \o (IF IsSome(e.value)
        THEN << ToLeBytes(Len(Unwrap(e.value)), 8), Unwrap(e.value) >>
        ELSE << ToLeBytes(0, 8), <<>> >>)
    \o << ToLeBytes(e.timestamp, 16) >>

\* Entry::write_to: the write_all calls, in order.
EntryChunks(e) ==
    << ToLeBytes(Len(e.key), 8), e.key, <<IF IsDeleted(e) THEN 1 ELSE 0>> >>
    \o (IF IsSome(e.value)
        THEN << ToLeBytes(Len(Unwrap(e.value)), 8), Unwrap(e.value) >>
        ELSE <<>>)
    \o << ToLeBytes(e.timestamp, 16) >>

EntryBytes(e) == Concat(EntryChunks(e))

\* Entry::read_from at offset pos of bytes, of which the reader can get the
\* bytes below limit.  ok: a record was decoded, next is the offset after
\* it.  Otherwise a read_exact ran out of bytes at limit, need bytes short.
\* (A length of Huge or more is a read that no file satisfies; the
\* allocation of the buffer for it is not modelled.)
ReadFrom(bytes, pos, limit) ==
    LET short(need) == [ok |-> FALSE, entry |-> Entry(<<>>, None, 0),
                        next |-> limit, need |-> need]
        done(k, v, p) ==
            IF p + 16 > limit THEN short(p + 16 - limit)
            ELSE [ok |-> TRUE,
                  entry |-> Entry(k, v, FromLeBytes(Slice(bytes, p, 16))),
                  next |-> p + 16, need |-> 0]
    IN  IF pos + 8 > limit THEN short(pos + 8 - limit) ELSE
        LET key_len == FromLeBytes(Slice(bytes, pos, 8))
            p1 == pos + 8
        IN  IF p1 + key_len > limit THEN short(p1 + key_len - limit) ELSE
        LET key == Slice(bytes, p1, key_len)
            p2 == p1 + key_len
        IN  IF p2 + 1 > limit THEN short(1) ELSE
        LET is_deleted == bytes[p2 + 1] # 0
            p3 == p2 + 1
        IN  IF is_deleted THEN done(key, None, p3) ELSE
            IF p3 + 8 > limit THEN short(p3 + 8 - limit) ELSE
        LET value_len == FromLeBytes(Slice(bytes, p3, 8))
            p4 == p3 + 8
        IN  IF p4 + value_len > limit THEN short(p4 + value_len - limit) ELSE
            done(key, Some(Slice(bytes, p4, value_len)), p4 + value_len)

(***************************************************************************)
(* MemTable (mem_table.rs).                                                *)
(***************************************************************************)
TIMESTAMP_SIZE == 16
TOMBSTONE_SIZE == 1

MemTableNew == [entries |-> <<>>, size |-> 0]

RECURSIVE BinarySearch(_, _, _, _)
\* slice::binary_search_by_key over entries[left..right) (0-based):
\* Ok(idx) or Err(idx).
BinarySearch(entries, key, left, right) ==
    IF left >= right THEN [found |-> FALSE, idx |-> left]
    ELSE LET mid == left + (right - left) \div 2
             k == entries[mid + 1].key
         IN  IF SeqLess(k, key) THEN BinarySearch(entries, key, mid + 1, right)
             ELSE IF SeqLess(key, k) THEN BinarySearch(entries, key, left, mid)
             ELSE [found |-> TRUE, idx |-> mid]

\* MemTable::get_index
GetIndex(mt, key) == BinarySearch(mt.entries, key, 0, Len(mt.entries))

\* MemTable::get
MemTableGet(mt, key) ==
    LET r == GetIndex(mt, key)
    IN  IF r.found THEN Some(mt.entries[r.idx + 1]) ELSE None

\* A Vec::insert that appends.
VecInsertAtEnd(s, idx, e) == Append(s, e)

\* Vec::insert(idx, e), idx 0-based.
VecInsert(s, idx, e) == SubSeq(s, 1, idx) \o <<e>> \o SubSeq(s, idx + 1, Len(s))

\* The value length MemTable::set / delete subtract for a replaced entry.
OldValueLen(e) == IF IsSome(e.value) THEN Len(Unwrap(e.value)) ELSE 0

\* A MemTable::set that keeps the entry a key already has.
MemTableSetKeepsOld(mt, key, value, timestamp) ==
    LET entry == Entry(key, Some(value), timestamp)
        r == GetIndex(mt, key)
    IN  IF r.found
        THEN mt
        ELSE [entries |-> VecInsert(mt.entries, r.idx, entry),
              size |-> mt.size + Len(key) + Len(value)
                       + TIMESTAMP_SIZE + TOMBSTONE_SIZE]

\* MemTable::set
MemTableSet(mt, key, value, timestamp) ==
    LET entry == Entry(key, Some(value), timestamp)
        r == GetIndex(mt, key)
    IN  IF r.found
        THEN [entries |-> [mt.entries EXCEPT ![r.idx + 1] = entry],
              size |-> mt.size - OldValueLen(mt.entries[r.idx + 1]) + Len(value)]
        ELSE [entries |-> VecInsert(mt.entries, r.idx, entry),
              size |-> mt.size + Len(key) + Len(value)
                       + TIMESTAMP_SIZE + TOMBSTONE_SIZE]

\* A MemTable::delete that leaves the size as it was when it replaces an
\* entry.
MemTableDeleteKeepsSize(mt, key, timestamp) ==
    LET entry == Entry(key, None, timestamp)
        r == GetIndex(mt, key)
    IN  IF r.found
        THEN [entries |-> [mt.entries EXCEPT ![r.idx + 1] = entry],
              size |-> mt.size]
        ELSE [entries |-> VecInsert(mt.entries, r.idx, entry),
              size |-> mt.size + Len(key) + TIMESTAMP_SIZE + TOMBSTONE_SIZE]

\* A MemTable::delete that takes the entry of the key out of the Vec and
\* stores nothing for a key it does not hold.
MemTableDeleteRemoves(mt, key, timestamp) ==
    LET r == GetIndex(mt, key)
    IN  IF r.found
        THEN [entries |-> SubSeq(mt.entries, 1, r.idx)
                          \o SubSeq(mt.entries, r.idx + 2, Len(mt.entries)),
              size |-> mt.size - OldValueLen(mt.entries[r.idx + 1])
                       - Len(key) - TIMESTAMP_SIZE - TOMBSTONE_SIZE]
        ELSE mt

\* MemTable::delete
MemTableDelete(mt, key, timestamp) ==
    LET entry == Entry(key, None, timestamp)
        r == GetIndex(mt, key)
    IN  IF r.found
        THEN [entries |-> [mt.entries EXCEPT ![r.idx + 1] = entry],
              size |-> mt.size - OldValueLen(mt.entries[r.idx + 1])]
        ELSE [entries |-> VecInsert(mt.entries, r.idx, entry),
              size |-> mt.size + Len(key) + TIMESTAMP_SIZE + TOMBSTONE_SIZE]

(***************************************************************************)
(* The directory: paths, listings, sorting (utils/file.rs).                *)
(***************************************************************************)
\* A path is <<n, ext>>: the file "<n>.<ext>" of the directory, n a
\* timestamp.  The index file of "<n>.db" is "<n>.db.idx", whose extension
\* is "idx".
WalPath(n) == <<n, "wal">>
DbPath(n) == <<n, "db">>

\* get_index_path
GetIndexPath(path) == <<path[1], "idx">>

RECURSIVE Digits(_)
\* format!("{}", n)
Digits(n) == IF n < 10 THEN <<n>> ELSE Digits(n \div 10) \o <<n % 10>>

\* PathBuf's order on two files of the same extension: the order of their
\* names as strings ('.' sorts before every digit).
PathLess(p, q) == SeqLess(Digits(p[1]), Digits(q[1]))

\* get_files_with_ext
GetFilesWithExt(d, ext) == {p \in DOMAIN d : p[2] = ext}

\* A selection that takes a file of the threshold's size too.
GetFilesUpToSize(d, ext, size) ==
    {p \in DOMAIN d : p[2] = ext /\ Len(d[p]) <= size}

\* get_files_with_ext_and_size
GetFilesWithExtAndSize(d, ext, size) ==
    {p \in DOMAIN d : p[2] = ext /\ Len(d[p]) < size}

RECURSIVE SortAsc(_)
\* files.sort()
SortAsc(S) ==
    IF S = {} THEN <<>>
    ELSE LET m == CHOOSE x \in S : \A y \in S \ {x} : PathLess(x, y)
         IN  <<m>> \o SortAsc(S \ {m})

RECURSIVE SortDesc(_)
\* files.sort_by(|a, b| b.cmp(a))
SortDesc(S) ==
    IF S = {} THEN <<>>
    ELSE LET m == CHOOSE x \in S : \A y \in S \ {x} : PathLess(y, x)
         IN  <<m>> \o SortDesc(S \ {m})

\* OpenOptions::create(true): the file exists afterwards.
FileCreate(d, path) == IF path \in DOMAIN d THEN d ELSE (path :> <<>>) @@ d

\* A write through a handle opened with append(true); a handle whose file
\* was unlinked writes to no file of the directory.
FileAppend(d, path, bytes) ==
    IF path \in DOMAIN d THEN [d EXCEPT ![path] = @ \o bytes] ELSE d

\* remove_file
FileRemove(d, path) == [p \in DOMAIN d \ {path} |-> d[p]]

(***************************************************************************)
(* tokio::io::BufWriter over a file opened for append.                     *)
(***************************************************************************)
\* One write_all(chunk) on a writer holding buf: the buffer is written out
\* first when the chunk does not fit; a chunk of the buffer's capacity or
\* more goes to the file directly.
BufWrite(d, path, buf, chunk) ==
    LET flushed == Len(buf) + Len(chunk) > BufCapacity
        d1 == IF flushed THEN FileAppend(d, path, buf) ELSE d
        b1 == IF flushed THEN <<>> ELSE buf
    IN  IF Len(chunk) >= BufCapacity
        THEN [disk |-> FileAppend(d1, path, chunk), buf |-> b1]
        ELSE [disk |-> d1, buf |-> b1 \o chunk]

RECURSIVE BufWriteAll(_, _, _, _)
BufWriteAll(d, path, buf, chunks) ==
    IF chunks = <<>> THEN [disk |-> d, buf |-> buf]
    ELSE LET s == BufWrite(d, path, buf, Head(chunks))
         IN  BufWriteAll(s.disk, path, s.buf, Tail(chunks))

\* BufWriter::flush
BufFlush(d, path, buf) == FileAppend(d, path, buf)

(***************************************************************************)
(* SSTable index (sstable/sstable_index.rs): a BTreeMap key -> offset,     *)
(* persisted with bincode.                                                 *)
(***************************************************************************)
EmptyIndex == [k \in {} |-> 0]

\* SSTableIndex::insert
IndexInsert(m, key, offset) ==
    [k \in DOMAIN m \cup {key} |-> IF k = key THEN offset ELSE m[k]]

\* SSTableIndex::remove
IndexRemove(m, key) == [k \in DOMAIN m \ {key} |-> m[k]]

RECURSIVE SortKeys(_)
\* The keys of a BTreeMap<Vec<u8>, _> in iteration order.
SortKeys(S) ==
    IF S = {} THEN <<>>
    ELSE LET m == CHOOSE x \in S : \A y \in S \ {x} : SeqLess(x, y)
         IN  <<m>> \o SortKeys(S \ {m})

RECURSIVE SerializePairs(_, _)
SerializePairs(m, keys) ==
    IF keys = <<>> THEN <<>>
    ELSE ToLeBytes(Len(Head(keys)), 8) \o Head(keys)
         \o ToLeBytes(m[Head(keys)], 8) \o SerializePairs(m, Tail(keys))

\* bincode::serialize(&indexes): the length, then each key (length, bytes)
\* and offset, in key order.
Serialize(m) ==
    ToLeBytes(Cardinality(DOMAIN m), 8) \o SerializePairs(m, SortKeys(DOMAIN m))

RECURSIVE DeserializePairs(_, _, _, _)
DeserializePairs(bytes, pos, n, acc) ==
    IF n = 0 THEN [ok |-> TRUE, indexes |-> acc]
    ELSE IF pos + 8 > Len(bytes) THEN [ok |-> FALSE, indexes |-> EmptyIndex]
    ELSE LET key_len == FromLeBytes(Slice(bytes, pos, 8))
             p1 == pos + 8
         IN  IF p1 + key_len + 8 > Len(bytes)
             THEN [ok |-> FALSE, indexes |-> EmptyIndex]
             ELSE DeserializePairs(bytes, p1 + key_len + 8, n - 1,
                      IndexInsert(acc, Slice(bytes, p1, key_len),
                                  FromLeBytes(Slice(bytes, p1 + key_len, 8))))

\* bincode::deserialize(&buf): bytes after the map are ignored.
Deserialize(bytes) ==
    IF Len(bytes) < 8 THEN [ok |-> FALSE, indexes |-> EmptyIndex]
    ELSE DeserializePairs(bytes, 8, FromLeBytes(Slice(bytes, 0, 8)), EmptyIndex)

\* SSTableIndexBuilder::indexes: the file is created when absent; an empty
\* file is an empty index.
IndexLoad(d, index_path) ==
    LET d1 == FileCreate(d, index_path)
        r == IF Len(d1[index_path]) > 0 THEN Deserialize(d1[index_path])
             ELSE [ok |-> TRUE, indexes |-> EmptyIndex]
    IN  [ok |-> r.ok, indexes |-> r.indexes, disk |-> d1]

\* An SSTableIndex::persist through a file opened for append.
IndexPersistAppend(d, index_path, m) ==
    FileAppend(FileCreate(d, index_path), index_path, Serialize(m))

\* SSTableIndex::persist: the bytes are written from offset 0 of the file,
\* which is not truncated.  write_all hands the bytes to tokio's blocking
\* pool; they are taken to be in the file when persist returns.
IndexPersist(d, index_path, m) ==
    LET bytes == Serialize(m)
        d1 == FileCreate(d, index_path)
        old == d1[index_path]
    IN  [d1 EXCEPT ![index_path] = bytes \o SubSeq(old, Len(bytes) + 1, Len(old))]

(***************************************************************************)
(* SSTable writer, reader and querier (sstable/).                          *)
(***************************************************************************)
\* SSTableWriter::new
SSTableWriterNew(d, path) ==
    LET il == IndexLoad(d, GetIndexPath(path))
        d1 == FileCreate(il.disk, path)
    IN  [ok |-> il.ok,
         disk |-> IF il.ok THEN d1 ELSE il.disk,
         writer |-> [path |-> path, index |-> il.indexes, buf |-> <<>>,
                     offset |-> Len(d1[path])]]

\* The offset SSTableWriter::set leaves for the next record:
\* self.offset += self.writer.stream_position(), the position being the
\* end of the file after the buffer was written out.
NextOffset(offset, position) == offset + position

\* SSTableWriter::set
SSTableWriterSet(d, w, entry) ==
    LET s == BufWriteAll(d, w.path, w.buf, EntryChunks(entry))
        d1 == BufFlush(s.disk, w.path, s.buf)
        position == IF w.path \in DOMAIN d1 THEN Len(d1[w.path]) ELSE 0
    IN  [disk |-> d1,
         writer |-> [w EXCEPT !.index = IndexInsert(w.index, entry.key, w.offset),
                              !.buf = <<>>,
                              !.offset = NextOffset(w.offset, position)]]

\* SSTableWriter::contains_key
SSTableWriterContainsKey(w, key) == key \in DOMAIN w.index

\* SSTableWriter::flush: the index is persisted and the data writer
\* flushed; the two touch different files.
SSTableWriterFlush(d, w) ==
    [disk |-> BufFlush(IndexPersist(d, GetIndexPath(w.path), w.index),
                       w.path, w.buf),
     writer |-> [w EXCEPT !.buf = <<>>]]

\* SSTableReader::new: the index is loaded (its file created when absent),
\* then the data file is opened, which fails when it does not exist.
SSTableReaderNew(d, path) ==
    LET il == IndexLoad(d, GetIndexPath(path))
    IN  [ok |-> il.ok /\ path \in DOMAIN il.disk,
         disk |-> il.disk,
         reader |-> [path |-> path, index |-> il.indexes]]

\* SSTableReader::read
SSTableReaderRead(d, r, offset) ==
    LET x == ReadFrom(d[r.path], offset, Len(d[r.path]))
    IN  IF x.ok THEN Some(x.entry) ELSE None

\* SSTableReader::get
SSTableReaderGet(d, r, key) ==
    IF key \in DOMAIN r.index THEN SSTableReaderRead(d, r, r.index[key]) ELSE None

\* SSTableQuerier::new
SSTableQuerierNew(d) == SortDesc(GetFilesWithExt(d, "db"))

RECURSIVE SSTableQuerierQuery(_, _, _)
\* SSTableQuerier::query: the first hit, newest file first; a file that
\* cannot be opened ends the query with None.
SSTableQuerierQuery(d, path_collection, key) ==
    IF path_collection = <<>> THEN [entry |-> None, disk |-> d]
    ELSE LET rn == SSTableReaderNew(d, Head(path_collection))
         IN  IF ~rn.ok THEN [entry |-> None, disk |-> rn.disk]
             ELSE LET entry_opt == SSTableReaderGet(rn.disk, rn.reader, key)
                  IN  IF IsSome(entry_opt)
                      THEN [entry |-> entry_opt, disk |-> rn.disk]
                      ELSE SSTableQuerierQuery(rn.disk, Tail(path_collection), key)

(***************************************************************************)
(* Write-ahead log (wal.rs).                                               *)
(***************************************************************************)
\* micros_now(): the wall clock, assumed to advance between any two calls.
MicrosNow(clock) == clock + 1

RECURSIVE Pow10(_)
Pow10(n) == IF n = 0 THEN 1 ELSE 10 * Pow10(n - 1)

\* The first and the last clock value of a run: all of ClockDigits digits.
ClockStart == Pow10(ClockDigits - 1)
ClockLimit == Pow10(ClockDigits) - 1

NoWal == [path |-> WalPath(0), buf |-> <<>>]

\* WriteAheadLog::new / from_path at time timestamp.
WriteAheadLogNew(d, timestamp) ==
    [disk |-> FileCreate(d, WalPath(timestamp)),
     wal |-> [path |-> WalPath(timestamp), buf |-> <<>>]]

\* WriteAheadLog::set and WriteAheadLog::delete: the entry goes to the
\* buffered writer.
WriteAheadLogWrite(d, w, entry) ==
    LET s == BufWriteAll(d, w.path, w.buf, EntryChunks(entry))
    IN  [disk |-> s.disk, wal |-> [w EXCEPT !.buf = s.buf]]

\* WriteAheadLog::flush
WriteAheadLogFlush(d, w) ==
    [disk |-> BufFlush(d, w.path, w.buf), wal |-> [w EXCEPT !.buf = <<>>]]

RECURSIVE WALIteratorNext(_, _, _)
\* WALIterator::poll_next on a file of content bytes.  Every poll builds a
\* new Entry::read_from future and polls it once.  pos is the offset of the
\* next byte the reader hands out, limit the end of what it holds.  A
\* read_from that needs bytes from limit on makes the file start a read and
\* returns Pending; the future is dropped with the bytes it had taken, and
\* the next poll decodes from limit.  The file reads one buffer, or all of
\* what a read_exact of a buffer or more still lacks.  A read of no byte is
\* the end of the stream.
WALIteratorNext(bytes, pos, limit) ==
    LET r == ReadFrom(bytes, pos, limit)
    IN  IF r.ok
        THEN [entry |-> Some(r.entry), pos |-> r.next, limit |-> limit]
        ELSE LET n == IF r.need >= BufCapacity THEN r.need ELSE BufCapacity
                 got == Min(limit + n, Len(bytes))
             IN  IF got = limit
                 THEN [entry |-> None, pos |-> limit, limit |-> limit]
                 ELSE WALIteratorNext(bytes, limit, got)

(***************************************************************************)
(* The engine as a machine.  m holds the directory, the clock, the         *)
(* Database (wal, mem_table, max_mem_table_size) and task: the call in     *)
(* progress, its position pc and its locals.  Step is one step of the      *)
(* call; every step is one that changes the directory at most once.        *)
(***************************************************************************)
DEFAULT_MAX_MEM_TABLE_SIZE == 10 * 1024 * 1024

NoWriter == [path |-> DbPath(0), index |-> EmptyIndex, buf |-> <<>>, offset |-> 0]
NoCall == [kind |-> "none", key |-> <<>>, value |-> <<>>]

IdleTask ==
    [pc |-> "idle", cont |-> "idle", call |-> NoCall, timestamp |-> 0,
     files |-> <<>>, i |-> 0, pos |-> 0, limit |-> 0,
     new_wal |-> NoWal, new_mem |-> MemTableNew, writer |-> NoWriter,
     max |-> 0]

\* The machine before a Database is opened on the directory d.
Closed(d, clock) ==
    [disk |-> d, clock |-> clock, wal |-> NoWal, mem_table |-> MemTableNew,
     max_mem_table_size |-> 0, task |-> [IdleTask EXCEPT !.pc = "closed"],
     result |-> "none"]

\* WriteAheadLog::restore_from_dir, first step: the segments are listed and
\* sorted, the new segment is created.
RestoreStart(m) ==
    LET wal_files == SortAsc(GetFilesWithExt(m.disk, "wal"))
        timestamp == MicrosNow(m.clock)
        nw == WriteAheadLogNew(m.disk, timestamp)
    IN  [m EXCEPT !.disk = nw.disk, !.clock = timestamp,
                  !.task = [@ EXCEPT !.pc = "replay", !.files = wal_files,
                                     !.i = 1, !.pos = 0, !.limit = 0,
                                     !.new_wal = nw.wal,
                                     !.new_mem = MemTableNew]]

\* restore_from_dir, the replay loop: one entry of the segment files[i] is
\* read and applied to the new segment and the new MemTable; at the end of
\* a segment the next one is opened; after the last the new segment is
\* flushed.
RestoreReplay(m) ==
    LET t == m.task
    IN  IF t.i > Len(t.files)
        THEN LET f == WriteAheadLogFlush(m.disk, t.new_wal)
             IN  [m EXCEPT !.disk = f.disk,
                           !.task = [@ EXCEPT !.pc = "unlink", !.i = 1,
                                              !.new_wal = f.wal]]
        ELSE LET r == WALIteratorNext(m.disk[t.files[t.i]], t.pos, t.limit)
             IN  IF IsSome(r.entry)
                 THEN LET entry == Unwrap(r.entry)
                          w == WriteAheadLogWrite(m.disk, t.new_wal, entry)
                      IN  [m EXCEPT
                             !.disk = w.disk,
                             !.task = [@ EXCEPT
                                !.pos = r.pos, !.limit = r.limit,
                                !.new_wal = w.wal,
                                !.new_mem =
                                   IF IsDeleted(entry)
                                   THEN MemTableDelete(@, entry.key, entry.timestamp)
                                   ELSE MemTableSet(@, entry.key, Unwrap(entry.value),
                                                    entry.timestamp)]]
                 ELSE [m EXCEPT !.task = [@ EXCEPT !.i = @ + 1, !.pos = 0,
                                                   !.limit = 0]]

\* A restore that returns the new segment and leaves the old ones in the
\* directory.
RestoreKeepsSegments(m) ==
    LET t == m.task
    IN  [m EXCEPT !.wal = t.new_wal, !.mem_table = t.new_mem,
                  !.max_mem_table_size = t.max,
                  !.result = "ok",
                  !.task = [IdleTask EXCEPT !.call = t.call,
                                            !.timestamp = t.timestamp]]

\* restore_from_dir, the clean-up loop: one old segment is removed; after
\* the last, the new segment and MemTable are returned and become the
\* Database's (DatabaseBuilder::new, max_mem_table_size, build).
RestoreUnlink(m) ==
    LET t == m.task
    IN  IF t.i > Len(t.files)
        THEN [m EXCEPT !.wal = t.new_wal, !.mem_table = t.new_mem,
                       !.max_mem_table_size = t.max,
                       !.result = "ok",
                       !.task = [IdleTask EXCEPT !.call = t.call,
                                                 !.timestamp = t.timestamp]]
        ELSE [m EXCEPT !.disk = FileRemove(@, t.files[t.i]),
                       !.task = [@ EXCEPT !.i = @ + 1]]

\* A first step that appends the entry to the log and leaves it in the
\* writer's buffer.
CallWalUnflushed(m) ==
    LET t == m.task
        timestamp == MicrosNow(m.clock)
        entry == Entry(t.call.key,
                       IF t.call.kind = "set" THEN Some(t.call.value) ELSE None,
                       timestamp)
        w == WriteAheadLogWrite(m.disk, m.wal, entry)
    IN  [m EXCEPT !.disk = w.disk, !.clock = timestamp, !.wal = w.wal,
                  !.task = [@ EXCEPT !.pc = "mem", !.timestamp = timestamp]]

\* Database::set / delete, first step: the timestamp is taken, the entry is
\* appended to the log and the log is flushed.
CallWal(m) ==
    LET t == m.task
        timestamp == MicrosNow(m.clock)
        entry == Entry(t.call.key,
                       IF t.call.kind = "set" THEN Some(t.call.value) ELSE None,
                       timestamp)
        w == WriteAheadLogWrite(m.disk, m.wal, entry)
        f == WriteAheadLogFlush(w.disk, w.wal)
    IN  [m EXCEPT !.disk = f.disk, !.clock = timestamp, !.wal = f.wal,
                  !.task = [@ EXCEPT !.pc = "mem", !.timestamp = timestamp]]

\* Database::set / delete, second step: the MemTable is updated.
CallMem(m) ==
    LET t == m.task
    IN  [m EXCEPT !.mem_table =
                     IF t.call.kind = "set"
                     THEN MemTableSet(@, t.call.key, t.call.value, t.timestamp)
                     ELSE MemTableDelete(@, t.call.key, t.timestamp),
                  !.task = [@ EXCEPT !.pc = "persist"]]

\* A test of persist_to_sstable that lets the limit itself pass.
ReachedLimitStrict(size, max) == size > max

\* The test of Database::persist_to_sstable.
ReachedLimit(size, max) == size >= max

\* Database::persist_to_sstable, first step: below the limit the call
\* returns Ok(1); otherwise the SSTable writer is created.
PersistStart(m) ==
    IF ~ReachedLimit(m.mem_table.size, m.max_mem_table_size)
    THEN [m EXCEPT !.result = "ok", !.task = [@ EXCEPT !.pc = "idle"]]
    ELSE LET timestamp == MicrosNow(m.clock)
             wn == SSTableWriterNew(m.disk, DbPath(timestamp))
         IN  IF ~wn.ok
             THEN [m EXCEPT !.disk = wn.disk, !.clock = timestamp,
                            !.result = "err",
                            !.task = [@ EXCEPT !.pc = "idle"]]
             ELSE [m EXCEPT !.disk = wn.disk, !.clock = timestamp,
                            !.task = [@ EXCEPT !.pc = "sstable", !.i = 1,
                                               !.writer = wn.writer]]

\* A write loop that goes on to the removal of the log without flushing the
\* SSTable.
PersistWriteUnflushed(m) ==
    LET t == m.task
    IN  IF t.i > Len(m.mem_table.entries)
        THEN [m EXCEPT !.task = [@ EXCEPT !.pc = "remove_wal"]]
        ELSE LET s == SSTableWriterSet(m.disk, t.writer, m.mem_table.entries[t.i])
             IN  [m EXCEPT !.disk = s.disk,
                           !.task = [@ EXCEPT !.i = @ + 1, !.writer = s.writer]]

\* persist_to_sstable, the write loop: one entry of the MemTable goes to
\* the SSTable; after the last the SSTable is flushed.
PersistWrite(m) ==
    LET t == m.task
    IN  IF t.i > Len(m.mem_table.entries)
        THEN LET f == SSTableWriterFlush(m.disk, t.writer)
             IN  [m EXCEPT !.disk = f.disk,
                           !.task = [@ EXCEPT !.pc = "remove_wal",
                                              !.writer = f.writer]]
        ELSE LET s == SSTableWriterSet(m.disk, t.writer, m.mem_table.entries[t.i])
             IN  [m EXCEPT !.disk = s.disk,
                           !.task = [@ EXCEPT !.i = @ + 1, !.writer = s.writer]]

\* persist_to_sstable: the log file is removed; the Database is then built
\* anew from the directory.
PersistRemoveWal(m) ==
    [m EXCEPT !.disk = FileRemove(@, m.wal.path),
              !.task = [@ EXCEPT !.pc = "restore",
                                 !.max = m.max_mem_table_size]]

\* persist_to_sstable: SSTableWriter::new, writer.set or writer.flush
\* returns an error, which `?` hands to the caller of set / delete.  done
\* tells whether the bytes of the failed operation reached the directory.
PersistFail(m, done) ==
    [m EXCEPT !.disk = IF done
                       THEN (IF m.task.pc = "persist" THEN PersistStart(m)
                             ELSE PersistWrite(m)).disk
                       ELSE @,
              !.result = "err",
              !.task = [@ EXCEPT !.pc = "idle"]]

\* One step of the call in progress.
Step(m) ==
    CASE m.task.pc = "restore" -> RestoreStart(m)
      [] m.task.pc = "replay" -> RestoreReplay(m)
      [] m.task.pc = "unlink" -> RestoreUnlink(m)
      [] m.task.pc = "wal" -> CallWal(m)
      [] m.task.pc = "mem" -> CallMem(m)
      [] m.task.pc = "persist" -> PersistStart(m)
      [] m.task.pc = "sstable" -> PersistWrite(m)
      [] m.task.pc = "remove_wal" -> PersistRemoveWal(m)

RECURSIVE Run(_)
\* The call in progress, run until it returns.
Run(m) == IF m.task.pc = "idle" THEN m ELSE Run(Step(m))

\* DatabaseBuilder::new(dir).max_mem_table_size(max).build() is called.
BeginOpen(m, max) ==
    [m EXCEPT !.task = [IdleTask EXCEPT !.pc = "restore", !.max = max]]

\* Database::set(key, value) is called.
BeginSet(m, key, value) ==
    [m EXCEPT !.task = [IdleTask EXCEPT !.pc = "wal",
                          !.call = [kind |-> "set", key |-> key, value |-> value]]]

\* Database::delete(key) is called.
BeginDelete(m, key) ==
    [m EXCEPT !.task = [IdleTask EXCEPT !.pc = "wal",
                          !.call = [kind |-> "delete", key |-> key, value |-> <<>>]]]

\* The process stops: what is in memory is gone, the directory stays.
Stop(m) == Closed(m.disk, m.clock)

\* Database::get
DatabaseGet(m, key) ==
    LET mem_opt == MemTableGet(m.mem_table, key)
        entry_opt == IF IsSome(mem_opt) THEN mem_opt
                     ELSE SSTableQuerierQuery(m.disk, SSTableQuerierNew(m.disk),
                                              key).entry
    IN  IF ~IsSome(entry_opt) THEN None
        ELSE IF IsDeleted(Unwrap(entry_opt)) THEN None
        ELSE Some([key |-> Unwrap(entry_opt).key,
                   value |-> Unwrap(Unwrap(entry_opt).value),
                   timestamp |-> Unwrap(entry_opt).timestamp])

(***************************************************************************)
(* Compaction (compaction.rs).                                             *)
(***************************************************************************)
\* SSTableScanHandler::handle: a tombstone's key is noted for removal; a
\* live entry is written unless the writer already holds its key.
Handle(st, entry) ==
    IF IsDeleted(entry)
    THEN [st EXCEPT !.to_be_deleted_keys = Append(@, entry.key)]
    ELSE IF SSTableWriterContainsKey(st.writer, entry.key) THEN st
    ELSE LET s == SSTableWriterSet(st.disk, st.writer, entry)
         IN  [st EXCEPT !.disk = s.disk, !.writer = s.writer]

RECURSIVE SSTableReaderScan(_, _, _)
\* SSTableReader::scan: the entries the index points at, in key order;
\* an offset at which no entry decodes is skipped.
SSTableReaderScan(st, r, keys) ==
    IF keys = <<>> THEN st
    ELSE LET entry_opt == SSTableReaderRead(st.disk, r, r.index[Head(keys)])
         IN  SSTableReaderScan(
                 IF IsSome(entry_opt) THEN Handle(st, Unwrap(entry_opt)) ELSE st,
                 r, Tail(keys))

RECURSIVE SSTableReaderScanOn(_, _, _, _, _)
\* A scan that goes on to the next key when its handler has failed, and
\* returns the failure at the end.
SSTableReaderScanOn(d, r, keys, fail_at, calls) ==
    IF keys = <<>>
    THEN [ok |-> \A i \in 1..Len(calls) : calls[i].ok, calls |-> calls]
    ELSE LET entry_opt == SSTableReaderRead(d, r, r.index[Head(keys)])
         IN  SSTableReaderScanOn(
                 d, r, Tail(keys), fail_at,
                 IF IsSome(entry_opt)
                 THEN Append(calls, [entry |-> Unwrap(entry_opt),
                                     ok |-> Len(calls) + 1 # fail_at])
                 ELSE calls)

RECURSIVE SSTableReaderScanWith(_, _, _, _, _)
\* SSTableReader::scan with a handler that fails in its call number
\* fail_at (never, when fail_at is 0): keys are those of the clone of the
\* index, in its order; calls are the calls of the handler so far.
SSTableReaderScanWith(d, r, keys, fail_at, calls) ==
    IF keys = <<>> THEN [ok |-> TRUE, calls |-> calls]
    ELSE LET entry_opt == SSTableReaderRead(d, r, r.index[Head(keys)])
         IN  IF ~IsSome(entry_opt)
             THEN SSTableReaderScanWith(d, r, Tail(keys), fail_at, calls)
             ELSE IF Len(calls) + 1 = fail_at
             THEN [ok |-> FALSE,
                   calls |-> Append(calls, [entry |-> Unwrap(entry_opt),
                                            ok |-> FALSE])]
             ELSE SSTableReaderScanWith(
                      d, r, Tail(keys), fail_at,
                      Append(calls, [entry |-> Unwrap(entry_opt), ok |-> TRUE]))

RECURSIVE CompactScan(_, _)
\* Compaction::compact, the loop over the selected files.
CompactScan(st, files) ==
    IF files = <<>> \/ ~st.ok THEN st
    ELSE LET rn == SSTableReaderNew(st.disk, Head(files))
         IN  IF ~rn.ok THEN [st EXCEPT !.ok = FALSE, !.disk = rn.disk]
             ELSE CompactScan(
                      SSTableReaderScan([st EXCEPT !.disk = rn.disk], rn.reader,
                                        SortKeys(DOMAIN rn.reader.index)),
                      Tail(files))

RECURSIVE RemoveFilesAndIndexes(_, _)
\* A removal that takes the index file of every selected file with it.
RemoveFilesAndIndexes(d, files) ==
    IF files = <<>> THEN d
    ELSE RemoveFilesAndIndexes(
             FileRemove(FileRemove(d, Head(files)), GetIndexPath(Head(files))),
             Tail(files))

RECURSIVE RemoveFiles(_, _)
\* Compaction::compact, the removal of the selected files.
RemoveFiles(d, files) ==
    IF files = <<>> THEN d
    ELSE RemoveFiles(FileRemove(d, Head(files)), Tail(files))

RECURSIVE UnlinkUntilFailure(_, _, _)
\* A removal loop that returns at the first removal that fails: the files
\* after it stay as well.
UnlinkUntilFailure(d, files, failed) ==
    IF files = <<>> \/ Head(files) \in failed THEN d
    ELSE UnlinkUntilFailure(FileRemove(d, Head(files)), Tail(files), failed)

\* Compaction::compact, the loop that joins the removals: the files of
\* failed stay, the removal of every other file takes place.
Unlink(d, files, failed) ==
    RemoveFiles(d, SelectSeq(files, LAMBDA p : p \notin failed))

RECURSIVE RemoveKeys(_, _)
\* Compaction::remove_deleted_keys, the inner loop.
RemoveKeys(idx, keys) ==
    IF keys = <<>> THEN idx
    ELSE RemoveKeys(IF Head(keys) \in DOMAIN idx
                    THEN IndexRemove(idx, Head(keys)) ELSE idx,
                    Tail(keys))

RECURSIVE RemoveDeletedKeys(_, _, _)
\* Compaction::remove_deleted_keys: every index file of the directory is
\* loaded, loses the keys and is persisted.
RemoveDeletedKeys(d, idx_files, keys) ==
    IF idx_files = <<>> THEN [ok |-> TRUE, disk |-> d]
    ELSE LET il == IndexLoad(d, Head(idx_files))
         IN  IF ~il.ok THEN [ok |-> FALSE, disk |-> il.disk]
             ELSE RemoveDeletedKeys(
                      IndexPersist(il.disk, Head(idx_files),
                                   RemoveKeys(il.indexes, keys)),
                      Tail(idx_files), keys)

\* The files Compaction::compact selects, newest first.
Selected(d, size) == SortDesc(GetFilesWithExtAndSize(d, "db", size))

\* Compaction::compact with threshold size, at clock value clock; failed
\* are the selected files whose remove_file returns an error.
Compact(d, clock, size, failed) ==
    LET files == Selected(d, size)
        timestamp == MicrosNow(clock)
        wn == SSTableWriterNew(d, DbPath(timestamp))
        st == CompactScan([ok |-> wn.ok, disk |-> wn.disk, writer |-> wn.writer,
                           to_be_deleted_keys |-> <<>>], files)
        f == SSTableWriterFlush(st.disk, st.writer)
        unlinked == Unlink(f.disk, files, failed)
        rd == RemoveDeletedKeys(unlinked,
                                SortAsc(GetFilesWithExt(unlinked, "idx")),
                                st.to_be_deleted_keys)
    IN  IF files = <<>>
        THEN [ok |-> TRUE, disk |-> d, clock |-> clock, path |-> DbPath(0),
              keys |-> <<>>]
        ELSE IF ~st.ok
        THEN [ok |-> FALSE, disk |-> st.disk, clock |-> timestamp,
              path |-> DbPath(timestamp), keys |-> st.to_be_deleted_keys]
        ELSE [ok |-> rd.ok, disk |-> rd.disk, clock |-> timestamp,
              path |-> DbPath(timestamp), keys |-> st.to_be_deleted_keys]

\* The steps of Compaction::compact, in the order of the code.
CompactionSteps == <<"selecting", "writing", "flushed", "unlinking", "patching">>

\* Compaction::compact up to the end of its loop: the output's writer is
\* created and the first files of the selection are scanned into it.
CompactScanOf(d, clock, files) ==
    LET wn == SSTableWriterNew(d, DbPath(MicrosNow(clock)))
    IN  CompactScan([ok |-> wn.ok, disk |-> wn.disk, writer |-> wn.writer,
                     to_be_deleted_keys |-> <<>>], files)

\* The steps of a compaction that removes its inputs once they are read,
\* before the output is flushed.
CompactTraceUnlinksEarly(d, files, st, f) ==
    <<[step |-> "selecting", disk |-> d],
      [step |-> "writing", disk |-> RemoveFiles(st.disk, files)],
      [step |-> "flushed", disk |-> RemoveFiles(f.disk, files)],
      [step |-> "unlinking", disk |-> RemoveFiles(f.disk, files)],
      [step |-> "patching",
       disk |-> RemoveDeletedKeys(
                    RemoveFiles(f.disk, files),
                    SortAsc(GetFilesWithExt(RemoveFiles(f.disk, files), "idx")),
                    st.to_be_deleted_keys).disk]>>

\* The directory after each step of a Compaction::compact that selected
\* files and fails nowhere before the patching of the indexes: st is the
\* state after the loop over files, f the result of the writer's flush.
CompactTrace(d, files, st, f) ==
    <<[step |-> "selecting", disk |-> d],
      [step |-> "writing", disk |-> st.disk],
      [step |-> "flushed", disk |-> f.disk],
      [step |-> "unlinking", disk |-> RemoveFiles(f.disk, files)],
      [step |-> "patching",
       disk |-> RemoveDeletedKeys(
                    RemoveFiles(f.disk, files),
                    SortAsc(GetFilesWithExt(RemoveFiles(f.disk, files), "idx")),
                    st.to_be_deleted_keys).disk]>>

\* The failures of a compaction of files before the inputs are removed:
\* the listing of the directory fails; the opening of the input after the
\* first n, or a write of one of its entries, fails; the flush of the
\* output fails, its bytes written or not.
CompactFaults(files) ==
    {[at |-> "selecting", n |-> 0, done |-> FALSE]}
        \cup {[at |-> "writing", n |-> n, done |-> FALSE] : n \in 0..(Len(files) - 1)}
        \cup {[at |-> "flushing", n |-> Len(files), done |-> b] : b \in BOOLEAN}

\* Compaction::compact when the operation fault fails: `?` returns the
\* error at once.  st is the state after the loop over the first fault.n
\* files, f the result of the writer's flush.
CompactFail(d, clock, st, f, fault) ==
    IF fault.at = "selecting"
    THEN [ok |-> FALSE, disk |-> d, clock |-> clock, path |-> DbPath(0),
          steps |-> <<>>]
    ELSE [ok |-> FALSE, disk |-> IF fault.done THEN f.disk ELSE st.disk,
          clock |-> MicrosNow(clock), path |-> DbPath(MicrosNow(clock)),
          steps |-> <<[step |-> "selecting", disk |-> d]>>
                    \o IF fault.at = "flushing"
                       THEN <<[step |-> "writing", disk |-> st.disk]>>
                       ELSE <<>>]

\* No compact() is in progress.
IdleCompactor ==
    [pc |-> "idle", ok |-> TRUE, files |-> <<>>, i |-> 1,
     writer |-> [path |-> DbPath(0), index |-> EmptyIndex, buf |-> <<>>,
                 offset |-> 0],
     keys |-> <<>>, idx_files |-> <<>>, indexes |-> EmptyIndex]

\* One step of Compaction::compact with threshold size, c being its
\* position and locals: the selection with the creation of the output's
\* writer; the scan of one selected file; the flush of the output; the
\* removal of the selected files with the listing of the index files; the
\* load of one index file; its persist without the keys to delete.
CompactorStep(d, clock, c, size) ==
    CASE c.pc = "idle" ->
           LET files == Selected(d, size)
               wn == SSTableWriterNew(d, DbPath(MicrosNow(clock)))
           IN  IF files = <<>>
               THEN [disk |-> d, clock |-> clock,
                     compactor |-> [IdleCompactor EXCEPT !.pc = "returned"]]
               ELSE [disk |-> wn.disk, clock |-> MicrosNow(clock),
                     compactor |-> [IdleCompactor EXCEPT
                                       !.pc = IF wn.ok THEN "scan" ELSE "returned",
                                       !.ok = wn.ok, !.files = files,
                                       !.writer = wn.writer]]
      [] c.pc = "scan" ->
           LET st == CompactScan([ok |-> TRUE, disk |-> d, writer |-> c.writer,
                                  to_be_deleted_keys |-> c.keys],
                                 <<c.files[c.i]>>)
           IN  [disk |-> st.disk, clock |-> clock,
                compactor |-> [c EXCEPT
                                  !.pc = IF ~st.ok THEN "returned"
                                         ELSE IF c.i = Len(c.files) THEN "flush"
                                         ELSE "scan",
                                  !.ok = st.ok, !.i = @ + 1,
                                  !.writer = st.writer,
                                  !.keys = st.to_be_deleted_keys]]
      [] c.pc = "flush" ->
           LET f == SSTableWriterFlush(d, c.writer)
           IN  [disk |-> f.disk, clock |-> clock,
                compactor |-> [c EXCEPT !.pc = "unlink", !.writer = f.writer]]
      [] c.pc = "unlink" ->
           LET unlinked == RemoveFiles(d, c.files)
               idx_files == SortAsc(GetFilesWithExt(unlinked, "idx"))
           IN  [disk |-> unlinked, clock |-> clock,
                compactor |-> [c EXCEPT
                                  !.pc = IF idx_files = <<>> THEN "returned"
                                         ELSE "load",
                                  !.idx_files = idx_files, !.i = 1]]
      [] c.pc = "load" ->
           LET il == IndexLoad(d, c.idx_files[c.i])
           IN  [disk |-> il.disk, clock |-> clock,
                compactor |-> [c EXCEPT
                                  !.pc = IF il.ok THEN "persist" ELSE "returned",
                                  !.ok = il.ok, !.indexes = il.indexes]]
      [] c.pc = "persist" ->
           [disk |-> IndexPersist(d, c.idx_files[c.i],
                                  RemoveKeys(c.indexes, c.keys)),
            clock |-> clock,
            compactor |-> [c EXCEPT
                              !.pc = IF c.i = Len(c.idx_files) THEN "returned"
                                     ELSE "load",
                              !.i = @ + 1]]

(***************************************************************************)
(* State.                                                                  *)
(***************************************************************************)
VARIABLES
    disk,                \* the directory: path -> bytes
    clock,               \* the last value micros_now() returned
    wal,                 \* Database.wal: path and unflushed buffer
    mem_table,           \* Database.mem_table
    max_mem_table_size,  \* Database.max_mem_table_size
    task,                \* the call in progress
    result,              \* how the last call returned
    acked,               \* per key, the entry of the last call that returned Ok
    flushes,             \* number of MemTable flushes so far
    deletes,             \* number of delete calls so far
    nops,                \* number of calls so far
    unacked,             \* keys whose last call has not returned
    crashes,             \* number of abrupt stops so far
    crash_pc,            \* where the last abrupt stop hit: <<pc, call kind>>
    direct,              \* the MemTable the log's writes give when applied directly
    uninterrupted,       \* what a recovery without a stop recovers, once known
    segments,            \* number of log segments the client created
    before,              \* what get returned for each key before the compaction
    expect,              \* per key, the entry the compaction's output is to hold
    out,                 \* the path of the compaction's output
    compactions,         \* number of compaction cycles so far
    dir_before,          \* the directory as the compaction found it
    inputs,              \* the files the compaction selected, newest first
    sst_writer,          \* the open SSTableWriter, if any
    sst_index,           \* the SSTableIndex held in memory
    idx_loaded,          \* the map the last reload of the index file gave
    codec_entries,       \* the entries written through the codec
    codec_decoded,       \* what the codec decoded from the file
    cases,               \* the kinds of MemTable calls made so far
    steps,               \* the directory after each step of the compaction
    faults,              \* number of failed I/O operations so far
    handled,             \* the calls of the scan's handler: entry and outcome
    compactor,           \* the compact() in progress beside the Database
    unremoved,           \* the inputs whose removal failed in the compaction
    to_be_deleted_keys   \* the keys whose tombstone the compaction met

vars == <<disk, clock, wal, mem_table, max_mem_table_size, task, result,
          acked, flushes, deletes, nops, unacked, crashes, crash_pc,
          direct, uninterrupted, segments, before, expect, out, compactions,
          dir_before, inputs, sst_writer, sst_index, idx_loaded, codec_entries,
          codec_decoded, cases, steps, faults, handled, compactor,
          unremoved,
          to_be_deleted_keys>>

compactGhost == <<before, expect, out, compactions, dir_before, inputs,
                  steps, unremoved, to_be_deleted_keys, handled, compactor>>

\* What the specification of the log records, and what the others do.
\* What the specifications of the single components use.
indexVars == <<sst_index, idx_loaded>>
codecVars == <<codec_entries, codec_decoded>>
unitVars == <<sst_writer, indexVars, codecVars, cases>>

walGhost == <<direct, uninterrupted, segments>>
facadeGhost == <<acked, flushes, deletes, unacked, crash_pc>>

EmptyDisk == [p \in {} |-> <<>>]

\* The machine of the current state.
M == [disk |-> disk, clock |-> clock, wal |-> wal, mem_table |-> mem_table,
      max_mem_table_size |-> max_mem_table_size, task |-> task,
      result |-> result]

Install(m) ==
    /\ disk' = m.disk
    /\ clock' = m.clock
    /\ wal' = m.wal
    /\ mem_table' = m.mem_table
    /\ max_mem_table_size' = m.max_mem_table_size
    /\ task' = m.task
    /\ result' = m.result

\* The call of m.task has returned Ok: its entry is the acknowledged one.
Ack(a, m) ==
    IF m.task.pc = "idle" /\ m.result = "ok" /\ m.task.call.kind # "none"
    THEN [a EXCEPT ![m.task.call.key] =
             Some(Entry(m.task.call.key,
                        IF m.task.call.kind = "set"
                        THEN Some(m.task.call.value) ELSE None,
                        m.task.timestamp))]
    ELSE a

\* What get(key) is to return by the acknowledged calls.
Expected(a, key) ==
    IF ~IsSome(a[key]) \/ IsDeleted(Unwrap(a[key])) THEN None
    ELSE Some([key |-> key, value |-> Unwrap(Unwrap(a[key]).value),
               timestamp |-> Unwrap(a[key]).timestamp])

\* The sizes a Database is opened with.
MaxSizes == {DEFAULT_MAX_MEM_TABLE_SIZE, SmallMaxMemTableSize}

\* The set calls the client makes: (key, value).
Writes == {<<<<1>>, <<>>>>, <<<<2>>, <<>>>>, <<<<2>>, <<7>>>>, <<<<3>>, <<7>>>>}

(***************************************************************************)
(* Spec: one client of the Database facade; every call runs to its return. *)
(***************************************************************************)
Init ==
    \E max \in MaxSizes :
        LET m == Run(BeginOpen(Closed(EmptyDisk, ClockStart), max))
        IN  /\ disk = m.disk
            /\ clock = m.clock
            /\ wal = m.wal
            /\ mem_table = m.mem_table
            /\ max_mem_table_size = m.max_mem_table_size
            /\ task = m.task
            /\ result = m.result
            /\ acked = [k \in Keys |-> None]
            /\ flushes = 0
            /\ deletes = 0
            /\ nops = 0
            /\ unacked = {}
            /\ crashes = 0
            /\ crash_pc = <<"none", "none">>
            /\ direct = MemTableNew
            /\ uninterrupted = None
            /\ segments = 0
            /\ before = None
            /\ expect = None
            /\ out = DbPath(0)
            /\ compactions = 0
            /\ dir_before = EmptyDisk
            /\ inputs = <<>>
            /\ sst_writer = None
            /\ sst_index = EmptyIndex
            /\ idx_loaded = None
            /\ codec_entries = <<>>
            /\ codec_decoded = None
            /\ cases = {}
            /\ steps = <<>>
            /\ unremoved = {}
            /\ handled = <<>>
            /\ compactor = IdleCompactor
            /\ to_be_deleted_keys = <<>>
            /\ faults = 0

Called(m) ==
    /\ Install(m)
    /\ acked' = Ack(acked, m)
    /\ flushes' = flushes + (IF m.wal.path # wal.path THEN 1 ELSE 0)
    /\ deletes' = deletes + (IF m.task.call.kind = "delete" THEN 1 ELSE 0)
    /\ nops' = nops + 1
    /\ UNCHANGED faults
    /\ UNCHANGED <<unacked, crashes, crash_pc>>
    /\ UNCHANGED walGhost
    /\ UNCHANGED compactGhost
    /\ UNCHANGED unitVars

Set(key, value) ==
    /\ task.pc = "idle"
    /\ nops < MaxOps
    /\ clock + 3 <= ClockLimit
    /\ \E m \in {Run(BeginSet(M, key, value))} : Called(m)

Delete(key) ==
    /\ task.pc = "idle"
    /\ nops < MaxOps
    /\ clock + 3 <= ClockLimit
    /\ \E m \in {Run(BeginDelete(M, key))} : Called(m)

Next ==
    \/ \E w \in Writes : Set(w[1], w[2])
    \/ \E key \in Keys : Delete(key)

Spec == Init /\ [][Next]_vars

(***************************************************************************)
(* C1.  Read-your-writes on the facade: as long as no MemTable flush has   *)
(* happened, get(K) returns the key, value and timestamp of the most       *)
(* recent set on K when the last call on K was a set, and not-present when *)
(* it was a delete or K was never written.                                 *)
(***************************************************************************)
C1_ReadYourWrites ==
    flushes = 0 =>
        \A key \in Keys : DatabaseGet(M, key) = Expected(acked, key)

\* A key overwritten by a later set, a deleted key and a key never written,
\* all still in the MemTable.
C1_Witness ==
    /\ flushes = 0
    /\ nops >= 3
    /\ \E k1, k2, k3 \in Keys :
        /\ IsSome(acked[k1]) /\ ~IsDeleted(Unwrap(acked[k1]))
        /\ IsSome(acked[k2]) /\ IsDeleted(Unwrap(acked[k2]))
        /\ ~IsSome(acked[k3])

(***************************************************************************)
(* C3.  No entry is lost by a MemTable flush: after set calls only, with   *)
(* one or more flushes, get(K) returns the value of the most recent set on *)
(* K, for every K that was set.                                            *)
(***************************************************************************)
C3_NoEntryLostByFlush ==
    (deletes = 0 /\ flushes >= 1) =>
        \A key \in Keys :
            IsSome(acked[key]) =>
                /\ IsSome(DatabaseGet(M, key))
                /\ Unwrap(DatabaseGet(M, key)).value
                       = Unwrap(Unwrap(acked[key]).value)

(***************************************************************************)
(* C4.  A tombstone hides every older version: when the last call on K was *)
(* delete(K), get(K) returns not-present, whether the tombstone is in the  *)
(* MemTable or has been flushed into an SSTable.                           *)
(***************************************************************************)
C4_TombstoneHides ==
    \A key \in Keys :
        (IsSome(acked[key]) /\ IsDeleted(Unwrap(acked[key]))) =>
            DatabaseGet(M, key) = None

(***************************************************************************)
(* SpecCrash: the same client, the calls taken one step at a time; the     *)
(* process may stop abruptly between any two steps and the Database is     *)
(* then opened again on the directory.                                     *)
(***************************************************************************)
CrashBegin(m) ==
    /\ task.pc = "idle"
    /\ nops < MaxCrashOps
    /\ clock + 3 <= ClockLimit
    /\ Install(m)
    /\ unacked' = unacked \cup {m.task.call.key}
    /\ deletes' = deletes + (IF m.task.call.kind = "delete" THEN 1 ELSE 0)
    /\ nops' = nops + 1
    /\ UNCHANGED faults
    /\ UNCHANGED <<acked, flushes, crashes, crash_pc>>
    /\ UNCHANGED walGhost
    /\ UNCHANGED compactGhost
    /\ UNCHANGED unitVars

CrashSet(key, value) == CrashBegin(BeginSet(M, key, value))

CrashDelete(key) == CrashBegin(BeginDelete(M, key))

\* The call in progress takes one step; when it returns Ok it is
\* acknowledged.
CrashStep ==
    /\ task.pc \notin {"idle", "closed"}
    /\ \E m \in {Step(M)} :
           /\ Install(m)
           /\ acked' = Ack(acked, m)
           /\ unacked' = IF Ack(acked, m) # acked
                         THEN unacked \ {m.task.call.key} ELSE unacked
           /\ flushes' = flushes + (IF task.pc = "remove_wal" THEN 1 ELSE 0)
    /\ UNCHANGED faults
    /\ UNCHANGED <<deletes, nops, crashes, crash_pc>>
    /\ UNCHANGED walGhost
    /\ UNCHANGED compactGhost
    /\ UNCHANGED unitVars

\* The process stops abruptly.
CrashStop ==
    /\ task.pc # "closed"
    /\ crashes < MaxCrashes
    /\ Install(Stop(M))
    /\ crashes' = crashes + 1
    /\ crash_pc' = <<task.pc, task.call.kind>>
    /\ UNCHANGED faults
    /\ UNCHANGED <<acked, flushes, deletes, nops, unacked>>
    /\ UNCHANGED walGhost
    /\ UNCHANGED compactGhost
    /\ UNCHANGED unitVars

\* The Database is opened again on the directory.
CrashOpen(max) ==
    /\ task.pc = "closed"
    /\ clock + 1 <= ClockLimit
    /\ Install(BeginOpen(M, max))
    /\ UNCHANGED faults
    /\ UNCHANGED <<acked, flushes, deletes, nops, unacked, crashes, crash_pc>>
    /\ UNCHANGED walGhost
    /\ UNCHANGED compactGhost
    /\ UNCHANGED unitVars

\* An I/O operation of the MemTable flush fails before the log is removed.
CrashFault ==
    /\ \/ task.pc = "sstable"
       \/ /\ task.pc = "persist"
          /\ ReachedLimit(mem_table.size, max_mem_table_size)
    /\ faults < MaxFaults
    /\ \E done \in BOOLEAN : Install(PersistFail(M, done))
    /\ faults' = faults + 1
    /\ UNCHANGED <<acked, flushes, deletes, nops, unacked, crashes, crash_pc>>
    /\ UNCHANGED walGhost
    /\ UNCHANGED compactGhost
    /\ UNCHANGED unitVars

NextCrash ==
    \/ \E w \in Writes : CrashSet(w[1], w[2])
    \/ \E key \in Keys : CrashDelete(key)
    \/ CrashStep
    \/ CrashStop
    \/ \E max \in MaxSizes : CrashOpen(max)
    \/ CrashFault

SpecCrash == Init /\ [][NextCrash]_vars

\* The Database has just been opened again after an abrupt stop.
Reopened ==
    /\ crashes >= 1
    /\ task.pc = "idle"
    /\ task.call.kind = "none"

\* get(key) returns the value the last acknowledged call on key left.
GetsAcked(key) ==
    IF IsDeleted(Unwrap(acked[key]))
    THEN DatabaseGet(M, key) = None
    ELSE /\ IsSome(DatabaseGet(M, key))
         /\ Unwrap(DatabaseGet(M, key)).value = Unwrap(Unwrap(acked[key]).value)

(***************************************************************************)
(* C2.  Durability of acknowledged writes: after an abrupt stop and a      *)
(* re-open, for every key whose last call was acknowledged, get returns    *)
(* the value of that set, or not-present when it was a delete.             *)
(***************************************************************************)
C2_AckedWritesAreDurable ==
    Reopened =>
        \A key \in Keys \ unacked : IsSome(acked[key]) => GetsAcked(key)

\* The steps of a call that are inside the MemTable flush.
InFlush(at) ==
    \/ at[1] \in {"sstable", "remove_wal"}
    \/ at[1] = "restore" /\ at[2] # "none"

(***************************************************************************)
(* C8.  An abrupt stop inside a MemTable flush loses no acknowledged       *)
(* write: after the re-open get(K) returns, for every key K whose last     *)
(* call was acknowledged, the result of that call.                         *)
(***************************************************************************)
C8_CrashInFlushLosesNothing ==
    (Reopened /\ InFlush(crash_pc)) =>
        \A key \in Keys \ unacked : IsSome(acked[key]) => GetsAcked(key)

(***************************************************************************)
(* SpecWal: a client of WriteAheadLog.  It creates segments, writes set    *)
(* and delete records with timestamps of its choice, flushes, and then     *)
(* calls restore_from_dir, which is taken one step at a time; the process  *)
(* may stop abruptly inside it, and restore_from_dir is then called again. *)
(***************************************************************************)
WalKeys == {<<1>>, <<2>>}
WalTimestamps == {1, 2}

InitWal ==
    /\ disk = EmptyDisk
    /\ clock = ClockStart
    /\ wal = NoWal
    /\ mem_table = MemTableNew
    /\ max_mem_table_size = 0
    /\ task = [IdleTask EXCEPT !.pc = "closed"]
    /\ result = "none"
    /\ acked = [k \in Keys |-> None]
    /\ flushes = 0
    /\ deletes = 0
    /\ nops = 0
    /\ unacked = {}
    /\ crashes = 0
    /\ crash_pc = <<"none", "none">>
    /\ direct = MemTableNew
    /\ uninterrupted = None
    /\ segments = 0
    /\ before = None
    /\ expect = None
    /\ out = DbPath(0)
    /\ compactions = 0
    /\ dir_before = EmptyDisk
    /\ inputs = <<>>
    /\ sst_writer = None
    /\ sst_index = EmptyIndex
    /\ idx_loaded = None
    /\ codec_entries = <<>>
    /\ codec_decoded = None
    /\ cases = {}
    /\ steps = <<>>
    /\ unremoved = {}
    /\ handled = <<>>
    /\ compactor = IdleCompactor
    /\ to_be_deleted_keys = <<>>
    /\ faults = 0

\* Nothing has been restored yet: the client is still writing.
Writing == task.pc = "closed" /\ crashes = 0 /\ ~IsSome(uninterrupted)

\* WriteAheadLog::new(dir); the segment before it has been flushed.
WalNew ==
    /\ Writing
    /\ wal.buf = <<>>
    /\ segments < MaxSegments
    /\ clock + 1 <= ClockLimit
    /\ \E nw \in {WriteAheadLogNew(disk, MicrosNow(clock))} :
          /\ disk' = nw.disk
          /\ wal' = nw.wal
    /\ clock' = MicrosNow(clock)
    /\ segments' = segments + 1
    /\ UNCHANGED faults
    /\ UNCHANGED <<mem_table, max_mem_table_size, task, result, nops, crashes,
                   direct, uninterrupted>>
    /\ UNCHANGED facadeGhost
    /\ UNCHANGED compactGhost
    /\ UNCHANGED unitVars

WalWrite(entry) ==
    /\ Writing
    /\ wal # NoWal
    /\ nops < MaxWalOps
    /\ \E w \in {WriteAheadLogWrite(disk, wal, entry)} :
          /\ disk' = w.disk
          /\ wal' = w.wal
    /\ direct' = IF IsDeleted(entry)
                 THEN MemTableDelete(direct, entry.key, entry.timestamp)
                 ELSE MemTableSet(direct, entry.key, Unwrap(entry.value),
                                  entry.timestamp)
    /\ nops' = nops + 1
    /\ UNCHANGED faults
    /\ UNCHANGED <<clock, mem_table, max_mem_table_size, task, result, crashes,
                   uninterrupted, segments>>
    /\ UNCHANGED facadeGhost
    /\ UNCHANGED compactGhost
    /\ UNCHANGED unitVars

\* WriteAheadLog::set
WalSet(key, value, timestamp) == WalWrite(Entry(key, Some(value), timestamp))

\* WriteAheadLog::delete
WalDelete(key, timestamp) == WalWrite(Entry(key, None, timestamp))

\* WriteAheadLog::flush
WalFlush ==
    /\ Writing
    /\ wal.buf # <<>>
    /\ \E f \in {WriteAheadLogFlush(disk, wal)} :
          /\ disk' = f.disk
          /\ wal' = f.wal
    /\ UNCHANGED faults
    /\ UNCHANGED <<clock, mem_table, max_mem_table_size, task, result, nops,
                   crashes>>
    /\ UNCHANGED walGhost
    /\ UNCHANGED compactGhost
    /\ UNCHANGED unitVars
    /\ UNCHANGED facadeGhost

\* The key -> (value or tombstone) mapping of a MemTable.
Mapping(mt) ==
    [key \in WalKeys |->
        IF IsSome(MemTableGet(mt, key))
        THEN Some(Unwrap(MemTableGet(mt, key)).value) ELSE None]

\* WriteAheadLog::restore_from_dir(dir) is called; every segment has been
\* flushed.
WalRestore ==
    /\ task.pc = "closed"
    /\ wal.buf = <<>>
    /\ segments >= 1
    /\ clock + 1 <= ClockLimit
    /\ \E m \in {BeginOpen(M, 0)} :
          /\ Install([m EXCEPT !.wal = NoWal])
          /\ uninterrupted' = IF IsSome(uninterrupted) THEN uninterrupted
                              ELSE Some(Mapping(Run(m).mem_table))
    /\ UNCHANGED faults
    /\ UNCHANGED <<nops, crashes, direct, segments>>
    /\ UNCHANGED facadeGhost
    /\ UNCHANGED compactGhost
    /\ UNCHANGED unitVars

\* restore_from_dir takes one step.
WalRestoreStep ==
    /\ task.pc \in {"restore", "replay", "unlink"}
    /\ \E m \in {Step(M)} : Install(m)
    /\ UNCHANGED faults
    /\ UNCHANGED <<nops, crashes>>
    /\ UNCHANGED walGhost
    /\ UNCHANGED compactGhost
    /\ UNCHANGED unitVars
    /\ UNCHANGED facadeGhost

\* The process stops inside restore_from_dir, after the new segment was
\* created.
WalCrash ==
    /\ task.pc \in {"replay", "unlink"}
    /\ crashes < MaxCrashes
    /\ Install(Stop(M))
    /\ crashes' = crashes + 1
    /\ crash_pc' = <<task.pc, "none">>
    /\ UNCHANGED faults
    /\ UNCHANGED <<nops, acked, flushes, deletes, unacked>>
    /\ UNCHANGED walGhost
    /\ UNCHANGED compactGhost
    /\ UNCHANGED unitVars

NextWal ==
    \/ WalNew
    \/ \E key \in WalKeys, value \in Values, timestamp \in WalTimestamps :
          WalSet(key, value, timestamp)
    \/ \E key \in WalKeys, timestamp \in WalTimestamps : WalDelete(key, timestamp)
    \/ WalFlush
    \/ WalRestore
    \/ WalRestoreStep
    \/ WalCrash

SpecWal == InitWal /\ [][NextWal]_vars

\* restore_from_dir has returned.
Restored == task.pc = "idle"

(***************************************************************************)
(* C5.  Replay equals direct application: after the writes went to one     *)
(* segment and were flushed, restore_from_dir returns a MemTable whose     *)
(* entries and size are those of applying the writes in order to an empty  *)
(* MemTable.                                                               *)
(***************************************************************************)
C5_ReplayEqualsDirect ==
    (Restored /\ crashes = 0 /\ segments = 1) => mem_table = direct

(***************************************************************************)
(* C6.  Last writer wins across segments: after the writes went to several *)
(* segments, the recovered MemTable holds for each key the entry written   *)
(* last in replay order (ascending segment name, record order within a     *)
(* segment), whatever the timestamps of the records are.                   *)
(***************************************************************************)
C6_LastWriterWins ==
    (Restored /\ crashes = 0 /\ segments >= 2) =>
        \A key \in WalKeys :
            MemTableGet(mem_table, key) = MemTableGet(direct, key)

(***************************************************************************)
(* C7.  Recovery is idempotent under a stop inside recovery: the recovery  *)
(* that follows the stop yields the key -> (value or tombstone) mapping of *)
(* a recovery of the original segments that was not interrupted.           *)
(***************************************************************************)
C7_RecoveryIdempotent ==
    (Restored /\ crashes >= 1) => Mapping(mem_table) = Unwrap(uninterrupted)

(***************************************************************************)
(* SpecCompact: SSTables are written into the directory as a MemTable      *)
(* flush writes them (the entries in key order, then the index), and       *)
(* Compaction::compact runs on the directory with a size threshold.  The   *)
(* Database that reads the directory has an empty MemTable.                *)
(***************************************************************************)
\* The MemTables flushed: a non-empty set of keys, each set or deleted.
Tables == UNION {[S -> {"set", "delete"}] : S \in (SUBSET Keys) \ {{}}}

CompactionSizes == {SmallCompactionSize, LargeCompactionSize}

RECURSIVE MemTableOf(_, _, _)
\* The MemTable that holds table's keys, written at time timestamp; a live
\* value is the byte of the write time, so the values of two tables differ.
MemTableOf(table, keys, timestamp) ==
    IF keys = <<>> THEN MemTableNew
    ELSE IF table[Head(keys)] = "set"
    THEN MemTableSet(MemTableOf(table, Tail(keys), timestamp), Head(keys),
                     <<timestamp % 256>>, timestamp)
    ELSE MemTableDelete(MemTableOf(table, Tail(keys), timestamp), Head(keys),
                        timestamp)

RECURSIVE WriteEntries(_, _, _)
\* The write loop of Database::persist_to_sstable.
WriteEntries(d, w, entries) ==
    IF entries = <<>> THEN [disk |-> d, writer |-> w]
    ELSE LET s == SSTableWriterSet(d, w, Head(entries))
         IN  WriteEntries(s.disk, s.writer, Tail(entries))

\* An SSTable is written at path from the entries of a MemTable.
SSTableOf(d, path, entries) ==
    LET wn == SSTableWriterNew(d, path)
        ws == WriteEntries(wn.disk, wn.writer, entries)
    IN  SSTableWriterFlush(ws.disk, ws.writer).disk

RECURSIVE FileEntries(_, _)
\* The entries of a data file, decoded one after the other from pos.
FileEntries(bytes, pos) ==
    LET x == ReadFrom(bytes, pos, Len(bytes))
    IN  IF x.ok THEN <<x.entry>> \o FileEntries(bytes, x.next) ELSE <<>>

\* The entries of key in the data file at path.
EntriesOf(d, path, key) ==
    SelectSeq(FileEntries(d[path], 0), LAMBDA e : e.key = key)

RECURSIVE Newest(_, _, _)
\* The entry of key in the first of files that holds one.
Newest(d, files, key) ==
    IF files = <<>> THEN None
    ELSE IF EntriesOf(d, Head(files), key) # <<>>
    THEN Some(Head(EntriesOf(d, Head(files), key)))
    ELSE Newest(d, Tail(files), key)

\* What the output of a compaction of files (newest first) is to hold for
\* key: the newest input's entry, when key is live in several inputs and
\* deleted in none.
ExpectedOutput(d, files, key) ==
    LET holders == {i \in 1..Len(files) : EntriesOf(d, files[i], key) # <<>>}
    IN  IF /\ Cardinality(holders) >= 2
           /\ \A i \in holders :
                 \A j \in 1..Len(EntriesOf(d, files[i], key)) :
                     ~IsDeleted(EntriesOf(d, files[i], key)[j])
        THEN Newest(d, files, key)
        ELSE None

InitCompact ==
    /\ disk = EmptyDisk
    /\ clock = ClockStart
    /\ wal = NoWal
    /\ mem_table = MemTableNew
    /\ max_mem_table_size = 0
    /\ task = IdleTask
    /\ result = "none"
    /\ acked = [k \in Keys |-> None]
    /\ flushes = 0
    /\ deletes = 0
    /\ nops = 0
    /\ unacked = {}
    /\ crashes = 0
    /\ crash_pc = <<"none", "none">>
    /\ direct = MemTableNew
    /\ uninterrupted = None
    /\ segments = 0
    /\ before = None
    /\ expect = None
    /\ out = DbPath(0)
    /\ compactions = 0
    /\ dir_before = EmptyDisk
    /\ inputs = <<>>
    /\ sst_writer = None
    /\ sst_index = EmptyIndex
    /\ idx_loaded = None
    /\ codec_entries = <<>>
    /\ codec_decoded = None
    /\ cases = {}
    /\ steps = <<>>
    /\ unremoved = {}
    /\ handled = <<>>
    /\ compactor = IdleCompactor
    /\ to_be_deleted_keys = <<>>
    /\ faults = 0

\* A MemTable is flushed into a new SSTable; the runs end with the
\* compaction that fails.
WriteSSTable(table) ==
    /\ nops < MaxSSTables
    /\ faults = 0
    /\ clock + 2 <= ClockLimit
    /\ disk' = SSTableOf(disk, DbPath(MicrosNow(MicrosNow(clock))),
                         MemTableOf(table, SortKeys(DOMAIN table),
                                    MicrosNow(clock)).entries)
    /\ clock' = MicrosNow(MicrosNow(clock))
    /\ nops' = nops + 1
    /\ before' = None
    /\ expect' = None
    /\ dir_before' = EmptyDisk
    /\ inputs' = <<>>
    /\ steps' = <<>>
    /\ unremoved' = {}
    /\ handled' = <<>>
    /\ UNCHANGED compactor
    /\ to_be_deleted_keys' = <<>>
    /\ UNCHANGED faults
    /\ UNCHANGED <<wal, mem_table, max_mem_table_size, task, result, crashes,
                   out, compactions>>
    /\ UNCHANGED walGhost
    /\ UNCHANGED facadeGhost
    /\ UNCHANGED unitVars

\* Compaction::compact runs with threshold size.  What the cycle is to
\* keep is recorded when it selects some file.
CompactCycle(size) ==
    /\ compactions < MaxCompactions
    /\ clock + 1 <= ClockLimit
    /\ \E c \in {Compact(disk, clock, size, {})} :
          /\ disk' = c.disk
          /\ clock' = c.clock
          /\ result' = IF c.ok THEN "ok" ELSE "err"
          /\ out' = c.path
          /\ to_be_deleted_keys' = c.keys
    /\ unremoved' = {}
    /\ handled' = <<>>
    /\ UNCHANGED compactor
    /\ \E files \in {Selected(disk, size)} :
          /\ before' = IF files = <<>> THEN None
                       ELSE Some([key \in Keys |-> DatabaseGet(M, key)])
          /\ expect' = IF files = <<>> THEN None
                       ELSE Some([key \in Keys |->
                                     ExpectedOutput(disk, files, key)])
          /\ inputs' = files
          /\ \E st \in {CompactScanOf(disk, clock, files)} :
             \E f \in {SSTableWriterFlush(st.disk, st.writer)} :
                steps' = IF files = <<>>
                         THEN <<[step |-> "selecting", disk |-> disk]>>
                         ELSE CompactTrace(disk, files, st, f)
    /\ compactions' = compactions + 1
    /\ dir_before' = disk
    /\ UNCHANGED faults
    /\ UNCHANGED <<wal, mem_table, max_mem_table_size, task, nops, crashes>>
    /\ UNCHANGED walGhost
    /\ UNCHANGED facadeGhost
    /\ UNCHANGED unitVars

\* Compaction::compact runs with threshold size, selects some file and
\* fails before it removes its inputs.
CompactFault(size) ==
    /\ compactions < MaxCompactions
    /\ faults < MaxFaults
    /\ nops <= MaxFaultTables
    /\ clock + 1 <= ClockLimit
    /\ Selected(disk, size) # <<>>
    /\ \E fault \in CompactFaults(Selected(disk, size)) :
       \E st \in {CompactScanOf(disk, clock,
                                SubSeq(Selected(disk, size), 1, fault.n))} :
       \E f \in {SSTableWriterFlush(st.disk, st.writer)} :
       \E c \in {CompactFail(disk, clock, st, f, fault)} :
          /\ disk' = c.disk
          /\ clock' = c.clock
          /\ out' = c.path
          /\ steps' = c.steps
          /\ to_be_deleted_keys' = st.to_be_deleted_keys
    /\ unremoved' = {}
    /\ handled' = <<>>
    /\ UNCHANGED compactor
    /\ result' = "err"
    /\ before' = None
    /\ expect' = None
    /\ compactions' = compactions + 1
    /\ faults' = faults + 1
    /\ dir_before' = disk
    /\ inputs' = Selected(disk, size)
    /\ UNCHANGED <<wal, mem_table, max_mem_table_size, task, nops, crashes>>
    /\ UNCHANGED walGhost
    /\ UNCHANGED facadeGhost
    /\ UNCHANGED unitVars

NextCompact ==
    \/ \E table \in Tables : WriteSSTable(table)
    \/ \E size \in CompactionSizes : CompactCycle(size)
    \/ \E size \in CompactionSizes : CompactFault(size)

SpecCompact == InitCompact /\ [][NextCompact]_vars

\* A compaction cycle has just returned Ok.
Compacted == IsSome(before) /\ result = "ok"

(***************************************************************************)
(* C9.  A compaction cycle does not change what reads return: for every    *)
(* key, Database::get after a successful compact() returns what it         *)
(* returned before, whichever SSTables the threshold selected.             *)
(***************************************************************************)
C9_CompactionKeepsReads ==
    Compacted => \A key \in Keys : DatabaseGet(M, key) = Unwrap(before)[key]

(***************************************************************************)
(* C10.  Newer shadows older in compaction: for a key that is live in      *)
(* several inputs and deleted in none, the output SSTable holds exactly    *)
(* one entry and reading the key from the output returns the entry of the  *)
(* input with the greatest file name that holds the key.                   *)
(***************************************************************************)
C10_NewerShadowsOlder ==
    Compacted =>
        \A key \in Keys :
            IsSome(Unwrap(expect)[key]) =>
                /\ Len(EntriesOf(disk, out, key)) = 1
                /\ SSTableReaderGet(disk, SSTableReaderNew(disk, out).reader, key)
                       = Unwrap(expect)[key]

\* The newest record of key in the data files the compaction selected.
NewestInput(key) == Newest(dir_before, inputs, key)

(***************************************************************************)
(* C11.  Tombstone resolution by compaction: after a successful compact(), *)
(* a key whose newest record across the compacted inputs is a tombstone is *)
(* in no index file of the directory, the one of the output included.      *)
(***************************************************************************)
C11_TombstoneResolved ==
    Compacted =>
        \A key \in Keys :
            (IsSome(NewestInput(key)) /\ IsDeleted(Unwrap(NewestInput(key)))) =>
                \A p \in GetFilesWithExt(disk, "idx") :
                    IndexLoad(disk, p).ok =>
                        key \notin DOMAIN IndexLoad(disk, p).indexes

\* Some selected file holds a tombstone of key.
TombstoneInInputs(key) ==
    \E i \in 1..Len(inputs) :
        \E j \in 1..Len(EntriesOf(dir_before, inputs[i], key)) :
            IsDeleted(EntriesOf(dir_before, inputs[i], key)[j])

(***************************************************************************)
(* C12.  A live value written after a delete survives compaction: when the *)
(* newest record of a key across the compacted inputs is live and an older *)
(* input holds a tombstone of the key, the key is in the index of the      *)
(* output after compact() and reading it there returns the live record.    *)
(***************************************************************************)
C12_LiveAfterDeleteSurvives ==
    Compacted =>
        \A key \in Keys :
            (/\ IsSome(NewestInput(key))
             /\ ~IsDeleted(Unwrap(NewestInput(key)))
             /\ TombstoneInInputs(key)) =>
                /\ key \in DOMAIN SSTableReaderNew(disk, out).reader.index
                /\ SSTableReaderGet(disk, SSTableReaderNew(disk, out).reader, key)
                       = NewestInput(key)

\* Every data file of the directory was below the threshold and selected.
AllSelected ==
    GetFilesWithExt(dir_before, "db") = {inputs[i] : i \in 1..Len(inputs)}

\* Some selected file holds a live record of key.
LiveInInputs(key) ==
    \E i \in 1..Len(inputs) :
        \E j \in 1..Len(EntriesOf(dir_before, inputs[i], key)) :
            ~IsDeleted(EntriesOf(dir_before, inputs[i], key)[j])

\* SSTableReader::get on the output of the compaction.
OutputGet(key) ==
    SSTableReaderGet(disk, SSTableReaderNew(disk, out).reader, key)

(***************************************************************************)
(* C13.  File set after compaction: when every data file of the directory  *)
(* is below the threshold, a successful compact() leaves no input data     *)
(* file and exactly one data file, the output, and every key that is live  *)
(* and has no tombstone in the inputs is readable from the output.         *)
(***************************************************************************)
C13_FileSetAfterCompaction ==
    (Compacted /\ AllSelected) =>
        /\ \A i \in 1..Len(inputs) : inputs[i] \notin DOMAIN disk
        /\ GetFilesWithExt(disk, "db") = {out}
        /\ \A key \in Keys :
               (LiveInInputs(key) /\ ~TombstoneInInputs(key)) =>
                   /\ IsSome(OutputGet(key))
                   /\ Unwrap(OutputGet(key)).key = key
                   /\ ~IsDeleted(Unwrap(OutputGet(key)))

(***************************************************************************)
(* SpecWriter: one SSTable file is written by SSTableWriter, which is      *)
(* opened, fed entries, flushed and dropped, and opened again on the file. *)
(***************************************************************************)
WriterPath == DbPath(1)

\* The entries handed to SSTableWriter::set.
WriterEntries ==
    {Entry(key, value, 1) : key \in Keys, value \in {None, Some(<<>>), Some(<<7>>)}}

InitWriter == InitCompact

\* SSTableWriter::new on the file, which may hold entries already.
WriterNew ==
    /\ sst_writer = None
    /\ flushes < MaxWriterFlushes
    /\ \E wn \in {SSTableWriterNew(disk, WriterPath)} :
          /\ wn.ok
          /\ disk' = wn.disk
          /\ sst_writer' = Some(wn.writer)
    /\ UNCHANGED faults
    /\ UNCHANGED <<clock, wal, mem_table, max_mem_table_size, task, result,
                   nops, crashes, cases>>
    /\ UNCHANGED indexVars
    /\ UNCHANGED codecVars
    /\ UNCHANGED walGhost
    /\ UNCHANGED facadeGhost
    /\ UNCHANGED compactGhost

\* SSTableWriter::set
WriterSet(e) ==
    /\ IsSome(sst_writer)
    /\ nops < MaxWriterSets
    /\ \E s \in {SSTableWriterSet(disk, Unwrap(sst_writer), e)} :
          /\ disk' = s.disk
          /\ sst_writer' = Some(s.writer)
    /\ acked' = [acked EXCEPT ![e.key] = Some(e)]
    /\ nops' = nops + 1
    /\ UNCHANGED faults
    /\ UNCHANGED <<clock, wal, mem_table, max_mem_table_size, task, result,
                   crashes, flushes, deletes, unacked, crash_pc, cases>>
    /\ UNCHANGED indexVars
    /\ UNCHANGED codecVars
    /\ UNCHANGED walGhost
    /\ UNCHANGED compactGhost

\* SSTableWriter::flush, after which the writer is dropped.
WriterFlush ==
    /\ IsSome(sst_writer)
    /\ disk' = SSTableWriterFlush(disk, Unwrap(sst_writer)).disk
    /\ sst_writer' = None
    /\ flushes' = flushes + 1
    /\ UNCHANGED faults
    /\ UNCHANGED <<clock, wal, mem_table, max_mem_table_size, task, result,
                   nops, crashes, acked, deletes, unacked, crash_pc, cases>>
    /\ UNCHANGED indexVars
    /\ UNCHANGED codecVars
    /\ UNCHANGED walGhost
    /\ UNCHANGED compactGhost

NextWriter ==
    \/ WriterNew
    \/ \E e \in WriterEntries : WriterSet(e)
    \/ WriterFlush

SpecWriter == InitWriter /\ [][NextWriter]_vars

\* The writer was flushed and dropped.
Flushed == sst_writer = None /\ flushes >= 1

\* The index of the file as a reader loads it.
WrittenIndex == SSTableReaderNew(disk, WriterPath).reader.index

(***************************************************************************)
(* C14.  SSTable index/offset invariant: after any sequence of             *)
(* SSTableWriter::set calls followed by flush, also when the writer was    *)
(* opened on a non-empty data file, decoding one entry at the offset the   *)
(* index has for a key yields an entry of that key, and                    *)
(* SSTableReader::get(key) returns the entry last written for the key.     *)
(***************************************************************************)
C14_IndexOffsetInvariant ==
    Flushed =>
        \A key \in DOMAIN WrittenIndex :
            /\ ReadFrom(disk[WriterPath], WrittenIndex[key],
                        Len(disk[WriterPath])).ok
            /\ ReadFrom(disk[WriterPath], WrittenIndex[key],
                        Len(disk[WriterPath])).entry.key = key
            /\ SSTableReaderGet(disk, SSTableReaderNew(disk, WriterPath).reader,
                                key) = acked[key]

(***************************************************************************)
(* SpecMem: one MemTable receives set and delete calls.                    *)
(***************************************************************************)
MemKeys == {<<1>>, <<1, 5>>, <<2>>, <<3>>}
MemTimestamps == {1, 2}

InitMem == InitCompact

\* Where Vec::insert puts a new entry: idx is the Err of get_index.
Position(mt, idx) ==
    IF idx = Len(mt.entries) THEN "end"
    ELSE IF idx = 0 THEN "start" ELSE "middle"

\* The branch MemTable::set takes for key.
SetCase(mt, key) ==
    LET r == GetIndex(mt, key)
    IN  IF r.found
        THEN IF IsSome(mt.entries[r.idx + 1].value)
             THEN "set_live" ELSE "set_tombstone"
        ELSE "insert_" \o Position(mt, r.idx)

\* The branch MemTable::delete takes for key.
DeleteCase(mt, key) ==
    LET r == GetIndex(mt, key)
    IN  IF r.found
        THEN IF IsSome(mt.entries[r.idx + 1].value)
             THEN "delete_live" ELSE "delete_tombstone"
        ELSE "delete_absent"

\* MemTable::set
MemSet(key, value, timestamp) ==
    /\ nops < MaxMemOps
    /\ mem_table' = MemTableSet(mem_table, key, value, timestamp)
    /\ cases' = cases \cup {SetCase(mem_table, key)}
    /\ nops' = nops + 1
    /\ UNCHANGED faults
    /\ UNCHANGED <<disk, clock, wal, max_mem_table_size, task, result,
                   crashes, sst_writer>>
    /\ UNCHANGED indexVars
    /\ UNCHANGED codecVars
    /\ UNCHANGED walGhost
    /\ UNCHANGED facadeGhost
    /\ UNCHANGED compactGhost

\* MemTable::delete
MemDelete(key, timestamp) ==
    /\ nops < MaxMemOps
    /\ mem_table' = MemTableDelete(mem_table, key, timestamp)
    /\ cases' = cases \cup {DeleteCase(mem_table, key)}
    /\ nops' = nops + 1
    /\ UNCHANGED faults
    /\ UNCHANGED <<disk, clock, wal, max_mem_table_size, task, result,
                   crashes, sst_writer>>
    /\ UNCHANGED indexVars
    /\ UNCHANGED codecVars
    /\ UNCHANGED walGhost
    /\ UNCHANGED facadeGhost
    /\ UNCHANGED compactGhost

NextMem ==
    \/ \E key \in MemKeys, value \in Values, timestamp \in MemTimestamps :
           MemSet(key, value, timestamp)
    \/ \E key \in MemKeys, timestamp \in MemTimestamps :
           MemDelete(key, timestamp)

SpecMem == InitMem /\ [][NextMem]_vars

RECURSIVE EntriesSize(_)
\* The bytes the entries account for: key, value if present, timestamp
\* and tombstone flag.
EntriesSize(entries) ==
    IF entries = <<>> THEN 0
    ELSE Len(Head(entries).key) + OldValueLen(Head(entries)) + 17
         + EntriesSize(Tail(entries))

(***************************************************************************)
(* C15.  MemTable size accounting: after every sequence of set and delete  *)
(* calls, size is the sum over the stored entries of the key length, the   *)
(* value length if a value is present, and 17.                             *)
(***************************************************************************)
C15_SizeAccounting == mem_table.size = EntriesSize(mem_table.entries)

\* An insert, both overwrites and the three deletes have happened.
C15_Witness ==
    /\ {"set_live", "set_tombstone", "delete_live", "delete_tombstone",
        "delete_absent"} \subseteq cases
    /\ cases \cap {"insert_start", "insert_middle", "insert_end"} # {}
    /\ mem_table.size > 0

(***************************************************************************)
(* C16.  MemTable ordering: after every sequence of set and delete calls   *)
(* the entries are in strictly ascending lexicographic key order, so no    *)
(* key occurs twice, wherever each key was inserted.                       *)
(***************************************************************************)
C16_StrictlyAscending ==
    \A i \in 1..(Len(mem_table.entries) - 1) :
        SeqLess(mem_table.entries[i].key, mem_table.entries[i + 1].key)

\* Keys were inserted at the start, in the middle and at the end.
C16_Witness ==
    /\ {"insert_start", "insert_middle", "insert_end"} \subseteq cases
    /\ Len(mem_table.entries) = 4

(***************************************************************************)
(* SpecCodec: entries are written to a file with Entry::write_to, then the *)
(* file is decoded from its start with Entry::read_from until it fails.    *)
(***************************************************************************)
CodecPath == WalPath(1)

\* The entries handed to the codec: the timestamps are those the decoder
\* of the model tells apart (below Huge).
CodecEntries ==
    {Entry(key, value, timestamp) :
        key \in {<<0>>, <<1>>, <<1, 255>>},
        value \in {None, Some(<<>>), Some(<<7>>), Some(<<0, 1>>)},
        timestamp \in {0, 1, 256, Huge - 1}}

InitCodec == InitCompact

\* Entry::write_to on a BufWriter over the file, which is then flushed.
CodecWrite(e) ==
    /\ Len(codec_entries) < MaxCodecEntries
    /\ \E s \in {BufWriteAll(FileCreate(disk, CodecPath), CodecPath, <<>>,
                              EntryChunks(e))} :
          disk' = BufFlush(s.disk, CodecPath, s.buf)
    /\ codec_entries' = Append(codec_entries, e)
    /\ codec_decoded' = None
    /\ UNCHANGED faults
    /\ UNCHANGED <<clock, wal, mem_table, max_mem_table_size, task, result,
                   nops, crashes, sst_writer, cases>>
    /\ UNCHANGED indexVars
    /\ UNCHANGED walGhost
    /\ UNCHANGED facadeGhost
    /\ UNCHANGED compactGhost

RECURSIVE ReadAll(_, _, _)
\* Entry::read_from called until it returns None: the entries decoded and
\* the offset after the last of them.
ReadAll(bytes, pos, acc) ==
    LET x == ReadFrom(bytes, pos, Len(bytes))
    IN  IF x.ok THEN ReadAll(bytes, x.next, Append(acc, x.entry))
        ELSE [entries |-> acc, consumed |-> pos]

\* The file is decoded from its start.
CodecRead ==
    /\ codec_entries # <<>>
    /\ codec_decoded = None
    /\ codec_decoded' = Some(ReadAll(disk[CodecPath], 0, <<>>))
    /\ UNCHANGED faults
    /\ UNCHANGED <<disk, clock, wal, mem_table, max_mem_table_size, task,
                   result, nops, crashes, sst_writer, cases, codec_entries>>
    /\ UNCHANGED indexVars
    /\ UNCHANGED walGhost
    /\ UNCHANGED facadeGhost
    /\ UNCHANGED compactGhost

NextCodec ==
    \/ \E e \in CodecEntries : CodecWrite(e)
    \/ CodecRead

SpecCodec == InitCodec /\ [][NextCodec]_vars

(***************************************************************************)
(* C17.  Entry codec round trip: decoding the bytes Entry::write_to        *)
(* produced yields entries equal to the written ones in key, value and     *)
(* timestamp, a present empty value staying distinct from a tombstone, and *)
(* consumes exactly the bytes written.                                     *)
(***************************************************************************)
C17_CodecRoundTrip ==
    IsSome(codec_decoded) =>
        /\ Unwrap(codec_decoded).entries = codec_entries
        /\ Unwrap(codec_decoded).consumed = Len(disk[CodecPath])

\* A tombstone and a present empty value of the same key were written and
\* decoded.
C17_Witness ==
    /\ IsSome(codec_decoded)
    /\ Len(codec_entries) = 2
    /\ codec_entries[1].key = codec_entries[2].key
    /\ codec_entries[1].value = None
    /\ codec_entries[2].value = Some(<<>>)
    /\ codec_entries[2].timestamp = Huge - 1
    /\ Len(Unwrap(codec_decoded).entries) = 2

(***************************************************************************)
(* SpecIndex: one SSTableIndex is changed in memory, persisted to its file *)
(* and loaded again from the file.                                         *)
(***************************************************************************)
IdxPath == GetIndexPath(DbPath(1))

IdxOffsets == {0, 35, 300}

InitIndex == InitCompact

\* SSTableIndex::insert
IdxInsert(key, offset) ==
    /\ nops < MaxIndexOps
    /\ sst_index' = IndexInsert(sst_index, key, offset)
    /\ idx_loaded' = None
    /\ result' = "none"
    /\ nops' = nops + 1
    /\ UNCHANGED faults
    /\ UNCHANGED <<disk, clock, wal, mem_table, max_mem_table_size, task,
                   crashes, sst_writer, cases>>
    /\ UNCHANGED codecVars
    /\ UNCHANGED walGhost
    /\ UNCHANGED facadeGhost
    /\ UNCHANGED compactGhost

\* SSTableIndex::remove
IdxRemove(key) ==
    /\ nops < MaxIndexOps
    /\ key \in DOMAIN sst_index
    /\ sst_index' = IndexRemove(sst_index, key)
    /\ idx_loaded' = None
    /\ result' = "none"
    /\ nops' = nops + 1
    /\ UNCHANGED faults
    /\ UNCHANGED <<disk, clock, wal, mem_table, max_mem_table_size, task,
                   crashes, sst_writer, cases>>
    /\ UNCHANGED codecVars
    /\ UNCHANGED walGhost
    /\ UNCHANGED facadeGhost
    /\ UNCHANGED compactGhost

\* How the bytes of the map compare with the file they are written over.
PersistCase(d, m) ==
    IF IdxPath \notin DOMAIN d \/ Len(d[IdxPath]) = 0 THEN "new"
    ELSE IF Len(Serialize(m)) < Len(d[IdxPath]) THEN "shorter"
    ELSE IF Len(Serialize(m)) > Len(d[IdxPath]) THEN "longer"
    ELSE "same"

\* SSTableIndex::persist
IdxPersist ==
    /\ flushes < MaxPersists
    /\ result = "none"
    /\ disk' = IndexPersist(disk, IdxPath, sst_index)
    /\ cases' = cases \cup {PersistCase(disk, sst_index)}
    /\ result' = "ok"
    /\ idx_loaded' = None
    /\ flushes' = flushes + 1
    /\ UNCHANGED faults
    /\ UNCHANGED <<clock, wal, mem_table, max_mem_table_size, task, nops,
                   crashes, sst_writer, sst_index, acked, deletes, unacked,
                   crash_pc>>
    /\ UNCHANGED codecVars
    /\ UNCHANGED walGhost
    /\ UNCHANGED compactGhost

\* SSTableIndexBuilder::new(path).indexes().build(), after a persist.
IdxReload ==
    /\ result = "ok"
    /\ idx_loaded = None
    /\ \E il \in {IndexLoad(disk, IdxPath)} :
          /\ disk' = il.disk
          /\ idx_loaded' = Some([ok |-> il.ok, indexes |-> il.indexes])
    /\ UNCHANGED faults
    /\ UNCHANGED <<clock, wal, mem_table, max_mem_table_size, task, result,
                   nops, crashes, sst_writer, sst_index, cases>>
    /\ UNCHANGED codecVars
    /\ UNCHANGED walGhost
    /\ UNCHANGED facadeGhost
    /\ UNCHANGED compactGhost

NextIndex ==
    \/ \E key \in MemKeys, offset \in IdxOffsets : IdxInsert(key, offset)
    \/ \E key \in MemKeys : IdxRemove(key)
    \/ IdxPersist
    \/ IdxReload

SpecIndex == InitIndex /\ [][NextIndex]_vars

(***************************************************************************)
(* C18.  SSTable index round trip: persist followed by a reload from the   *)
(* same path yields a map equal to the persisted one, also when the file   *)
(* held a larger map before the persist, and when it held a smaller one.   *)
(***************************************************************************)
C18_IndexRoundTrip ==
    IsSome(idx_loaded) =>
        /\ Unwrap(idx_loaded).ok
        /\ Unwrap(idx_loaded).indexes = sst_index

\* A map was reloaded from a file that still holds bytes of a larger map,
\* after the file had also been overwritten by a larger map.
C18_Witness ==
    /\ IsSome(idx_loaded)
    /\ {"shorter", "longer"} \subseteq cases
    /\ sst_index # EmptyIndex
    /\ Len(disk[IdxPath]) > Len(Serialize(sst_index))

\* The MemTable after the call that task records was applied to mt.
Applied(mt, t) ==
    IF t.call.kind = "set"
    THEN MemTableSet(mt, t.call.key, t.call.value, t.timestamp)
    ELSE MemTableDelete(mt, t.call.key, t.timestamp)

\* A set or delete returned Ok in this step.
Returned == task'.pc = "idle" /\ result' = "ok" /\ nops' = nops + 1

(***************************************************************************)
(* C19.  Flush threshold: a set or delete flushes the MemTable exactly     *)
(* when its size after the call was applied is at or above                 *)
(* max_mem_table_size; right after a flush the MemTable has size 0 and no  *)
(* entry, so after every successful set or delete the size is strictly     *)
(* below max_mem_table_size.                                               *)
(***************************************************************************)
C19_FlushThreshold ==
    [][Returned =>
          /\ (flushes' = flushes + 1)
                 <=> (Applied(mem_table, task').size >= max_mem_table_size)
          /\ (flushes' = flushes + 1) =>
                 (mem_table'.size = 0 /\ Len(mem_table'.entries) = 0)
          /\ (flushes' = flushes) => mem_table' = Applied(mem_table, task')
          /\ mem_table'.size < max_mem_table_size']_vars

\* The third call met the threshold and flushed; the two before it stayed
\* below it.
C19_Witness ==
    /\ max_mem_table_size = SmallMaxMemTableSize
    /\ nops = 3
    /\ flushes = 1
    /\ mem_table = MemTableNew
    /\ GetFilesWithExt(disk, "db") # {}

\* The data files of the directory whose index holds key.
Holders(d, key) ==
    {p \in GetFilesWithExt(d, "db") :
        key \in DOMAIN IndexLoad(d, GetIndexPath(p)).indexes}

\* SSTableQuerier::new(dir) then query(key).
Query(d, key) == SSTableQuerierQuery(d, SSTableQuerierNew(d), key).entry

(***************************************************************************)
(* C20.  Newest-first point query: SSTableQuerier::query(key) returns the  *)
(* entry of the key, live or tombstone, stored in the data file with the   *)
(* greatest name among the files whose index holds the key, and returns    *)
(* not-present only when no file's index holds the key.                    *)
(***************************************************************************)
C20_NewestFirstQuery ==
    \A key \in Keys :
        IF Holders(disk, key) = {}
        THEN Query(disk, key) = None
        ELSE /\ IsSome(Query(disk, key))
             /\ <<Unwrap(Query(disk, key))>>
                    = EntriesOf(disk, SortDesc(Holders(disk, key))[1], key)


(***************************************************************************)
(* C21.  Write-ahead invariant of the Database, on the step-level machine  *)
(* of SpecCrash.                                                           *)
(***************************************************************************)
\* The entry e is among the records of the active segment's file.
InActiveWal(e) ==
    /\ wal.path \in DOMAIN disk
    /\ \E es \in {FileEntries(disk[wal.path], 0)} :
           \E i \in 1..Len(es) : es[i] = e

\* Every entry of the Database's MemTable is in the active segment's file.
MemTableLogged ==
    \A i \in 1..Len(mem_table.entries) : InActiveWal(mem_table.entries[i])

\* persist_to_sstable has removed the log file and is building the
\* Database anew; the old MemTable is still the Database's.
Rebuilding ==
    /\ task.pc \in {"restore", "replay", "unlink"}
    /\ task.call.kind # "none"

SSTableOnDisk ==
    /\ task.writer.buf = <<>>
    /\ task.writer.path \in DOMAIN disk
    /\ FileEntries(disk[task.writer.path], 0) = mem_table.entries
    /\ GetIndexPath(task.writer.path) \in DOMAIN disk
    /\ \E il \in {IndexLoad(disk, GetIndexPath(task.writer.path))} :
           /\ il.ok
           /\ il.indexes = task.writer.index
    /\ DOMAIN task.writer.index =
           {mem_table.entries[i].key : i \in 1..Len(mem_table.entries)}

\* The step taken is a failed operation of the flush.
FlushFailed == task.pc \in {"persist", "sstable"} /\ result' = "err"

\* C22: while a MemTable flush writes its SSTable, the active log file is
\* on disk; the step that removes it starts with the SSTable's data and
\* index on disk; and when writing or flushing the SSTable fails, the log
\* file is still on disk and the MemTable is unchanged.
C22_FlushWriteOrdering ==
    [][/\ task.pc \in {"sstable", "remove_wal"} => wal.path \in DOMAIN disk
       /\ (task.pc = "remove_wal" /\ wal.path \notin DOMAIN disk')
              => SSTableOnDisk
       /\ FlushFailed => /\ wal.path \in DOMAIN disk'
                         /\ wal' = wal
                         /\ mem_table' = mem_table]_vars

\* A flush has failed and left the Database with its MemTable and its log
\* file; the flush of the next call has written the SSTable and removed the
\* log file.
C22_Witness ==
    /\ faults = 1
    /\ flushes >= 1
    /\ result = "ok"
    /\ task.pc = "idle"
    /\ task.call.kind # "none"
    /\ mem_table.entries = <<>>

(***************************************************************************)
(* C23.  Order of the steps of a compaction cycle, on SpecCompact.         *)
(***************************************************************************)
\* Every file the compaction selected is in the directory d.
InputsPresent(d) == \A j \in 1..Len(inputs) : inputs[j] \in DOMAIN d

StaleQuery(key) ==
    SSTableQuerierQuery(disk, SSTableQuerierNew(dir_before), key).entry

\* The same query over the listed files that are still in the directory.
RemainingQuery(key) ==
    SSTableQuerierQuery(disk,
                        SelectSeq(SSTableQuerierNew(dir_before),
                                  LAMBDA p : p \in DOMAIN disk),
                        key).entry

\* C24: when a listed SSTable file has been removed by a compaction after
\* the querier listed the directory, query(key) returns what the remaining
\* listed files give: the missing file counts as not holding the key and
\* the hit of an older file is still returned.
C24_MissingFileSkipped ==
    (compactions >= 1 /\ result = "ok" /\ inputs # <<>>) =>
        \A key \in Keys : StaleQuery(key) = RemainingQuery(key)

(***************************************************************************)
(* SpecRotate: restore_from_dir on a directory of log segments left by an  *)
(* earlier process.  The segments hold complete records; the last one may  *)
(* end with a record cut off by a stop in the middle of an append.         *)
(***************************************************************************)
\* The records a stop may cut: a live one and a tombstone.
CutEntries == {Entry(<<1>>, Some(<<7>>), 1), Entry(<<2>>, None, 2)}

InitRotate == InitWal

\* The earlier process created one more segment.
RotNew ==
    /\ task.pc = "closed"
    /\ faults = 0
    /\ segments < MaxSegments
    /\ disk' = FileCreate(disk, WalPath(segments + 1))
    /\ segments' = segments + 1
    /\ UNCHANGED <<clock, wal, mem_table, max_mem_table_size, task, result,
                   nops, crashes, direct, uninterrupted>>
    /\ UNCHANGED faults
    /\ UNCHANGED facadeGhost
    /\ UNCHANGED compactGhost
    /\ UNCHANGED unitVars

\* The earlier process appended a record to its segment and flushed it.
RotAppend(e) ==
    /\ task.pc = "closed"
    /\ faults = 0
    /\ segments >= 1
    /\ nops < MaxRotRecords
    /\ disk' = FileAppend(disk, WalPath(segments), EntryBytes(e))
    /\ codec_entries' = Append(codec_entries, e)
    /\ nops' = nops + 1
    /\ UNCHANGED <<clock, wal, mem_table, max_mem_table_size, task, result,
                   crashes, sst_writer, cases, codec_decoded>>
    /\ UNCHANGED faults
    /\ UNCHANGED indexVars
    /\ UNCHANGED walGhost
    /\ UNCHANGED facadeGhost
    /\ UNCHANGED compactGhost

\* The earlier process stopped in the middle of an append: the first n
\* bytes of the record reached the file.
RotCut(e, n) ==
    /\ task.pc = "closed"
    /\ faults = 0
    /\ segments >= 1
    /\ disk' = FileAppend(disk, WalPath(segments), SubSeq(EntryBytes(e), 1, n))
    /\ faults' = faults + 1
    /\ UNCHANGED <<clock, wal, mem_table, max_mem_table_size, task, result,
                   nops, crashes>>
    /\ UNCHANGED walGhost
    /\ UNCHANGED facadeGhost
    /\ UNCHANGED compactGhost
    /\ UNCHANGED unitVars

\* WriteAheadLog::restore_from_dir(dir) runs on the directory.
RotRestore ==
    /\ task.pc = "closed"
    /\ clock + 1 <= ClockLimit
    /\ \E m \in {Run(BeginOpen(M, 0))} : Install(m)
    /\ dir_before' = disk
    /\ UNCHANGED <<before, expect, out, compactions, inputs, steps, unremoved,
                   to_be_deleted_keys, handled, compactor>>
    /\ UNCHANGED faults
    /\ UNCHANGED <<nops, crashes>>
    /\ UNCHANGED walGhost
    /\ UNCHANGED facadeGhost
    /\ UNCHANGED unitVars

NextRotate ==
    \/ RotNew
    \/ \E key \in WalKeys, value \in Values, timestamp \in WalTimestamps :
          RotAppend(Entry(key, Some(value), timestamp))
    \/ \E key \in WalKeys, timestamp \in WalTimestamps :
          RotAppend(Entry(key, None, timestamp))
    \/ \E e \in CutEntries : \E n \in 1..(Len(EntryBytes(e)) - 1) : RotCut(e, n)
    \/ RotRestore

SpecRotate == InitRotate /\ [][NextRotate]_vars

RECURSIVE ApplyAll(_, _)
\* The MemTable that applying entries in order to mt gives.
ApplyAll(mt, entries) ==
    IF entries = <<>> THEN mt
    ELSE ApplyAll(IF IsDeleted(Head(entries))
                  THEN MemTableDelete(mt, Head(entries).key, Head(entries).timestamp)
                  ELSE MemTableSet(mt, Head(entries).key,
                                   Unwrap(Head(entries).value),
                                   Head(entries).timestamp),
                  Tail(entries))

RECURSIVE BytesOf(_)
\* The bytes of entries written one after the other.
BytesOf(entries) ==
    IF entries = <<>> THEN <<>>
    ELSE EntryBytes(Head(entries)) \o BytesOf(Tail(entries))

\* restore_from_dir has returned Ok with the records that were complete:
\* they are the MemTable's and the new segment's, in order, and the new
\* segment is the only one left.
RecoveredComplete ==
    /\ result = "ok"
    /\ mem_table = ApplyAll(MemTableNew, codec_entries)
    /\ wal.buf = <<>>
    /\ GetFilesWithExt(disk, "wal") = {wal.path}
    /\ disk[wal.path] = BytesOf(codec_entries)

\* C25: when the last record of a segment is cut off at a byte position,
\* restore_from_dir returns Ok, recovers exactly the complete records
\* before the cut, and the new segment holds exactly those records.
C25_TruncatedTail ==
    (task.pc = "idle" /\ faults = 1) => RecoveredComplete

\* C26: restore_from_dir on segments of complete records leaves a new
\* segment that holds every record of the old segments, by ascending
\* segment name and in write order, flushed, and removes every old
\* segment; with no segment in the directory the MemTable is empty and the
\* new segment has length 0.
C26_LogRotation ==
    (task.pc = "idle" /\ faults = 0) =>
        /\ RecoveredComplete
        /\ segments = 0 => /\ mem_table = MemTableNew
                           /\ Len(disk[wal.path]) = 0

(***************************************************************************)
(* C27.  SSTableIndex::persist rewrites the file in full: after persist    *)
(* has returned, the content of the index file is exactly the encoding of  *)
(* the map in memory; no byte of a longer map persisted before is left     *)
(* after it.  Stated on SpecIndex, between a persist and the next change   *)
(* of the map.                                                             *)
(***************************************************************************)
C27_PersistRewritesInFull ==
    result = "ok" => disk[IdxPath] = Serialize(sst_index)

(***************************************************************************)
(* C28.  SSTable immutability, on SpecCompact, where every data file of    *)
(* the directory belongs to an SSTable whose writer has flushed.           *)
(***************************************************************************)
\* C28: a step leaves every SSTable of the directory either with its data
\* file and its index file as they were, or without its data file, which
\* the compaction had selected.
C28_SSTableImmutable ==
    [][\A p \in GetFilesWithExt(disk, "db") :
          IF p \in DOMAIN disk'
          THEN /\ disk'[p] = disk[p]
               /\ GetIndexPath(p) \in DOMAIN disk'
               /\ disk'[GetIndexPath(p)] = disk[GetIndexPath(p)]
          ELSE \E j \in 1..Len(inputs') : inputs'[j] = p]_vars

(***************************************************************************)
(* SpecSelect: Compaction::compact on a directory that holds SSTables and  *)
(* the log segment of the Database; the threshold may be the size of a     *)
(* data file, and no file may be below it.                                 *)
(***************************************************************************)
SelectSizes == CompactionSizes \cup {EqualCompactionSize}

InitSelect == InitCompact

\* A MemTable is flushed into a new SSTable.
SelectWrite(table) ==
    /\ nops < MaxSelectTables
    /\ WriteSSTable(table)

\* The Database creates its log segment and appends a record to it.
SelectLog(e) ==
    /\ segments = 0
    /\ compactions = 0
    /\ clock + 1 <= ClockLimit
    /\ \E nw \in {WriteAheadLogNew(disk, MicrosNow(clock))} :
       \E f \in {WriteAheadLogFlush(nw.disk,
                                    WriteAheadLogWrite(nw.disk, nw.wal, e).wal)} :
          /\ disk' = f.disk
          /\ wal' = f.wal
    /\ clock' = MicrosNow(clock)
    /\ segments' = segments + 1
    /\ UNCHANGED <<mem_table, max_mem_table_size, task, result, nops, crashes,
                   direct, uninterrupted>>
    /\ UNCHANGED faults
    /\ UNCHANGED facadeGhost
    /\ UNCHANGED compactGhost
    /\ UNCHANGED unitVars

NextSelect ==
    \/ \E table \in Tables : SelectWrite(table)
    \/ \E e \in CutEntries : SelectLog(e)
    \/ \E size \in SelectSizes : CompactCycle(size)

SpecSelect == InitSelect /\ [][NextSelect]_vars

\* The data files of d whose size is strictly below size.
BelowThreshold(d, size) ==
    {p \in DOMAIN d : p[2] = "db" /\ Len(d[p]) < size}

\* C29: a compact() that finds no data file with a size strictly below its
\* threshold returns Ok and leaves the directory as it was: no file is
\* created, removed or changed.
C29_NoCandidateNoOp ==
    [][\A size \in SelectSizes :
          (CompactCycle(size) /\ BelowThreshold(disk, size) = {}) =>
              /\ result' = "ok"
              /\ disk' = disk]_vars

\* A compaction has run on a directory that holds data files and a log
\* segment, selected nothing and left the directory as it was.
C29_Witness ==
    /\ compactions >= 1
    /\ inputs = <<>>
    /\ result = "ok"
    /\ GetFilesWithExt(disk, "db") # {}
    /\ GetFilesWithExt(disk, "wal") # {}
    /\ dir_before = disk

\* C30: a compact() that returns Ok has used as input, and removed, exactly
\* the data files with a size strictly below its threshold; a data file of
\* the threshold's size or more, and a log segment, are in the directory
\* afterwards with their content, and no index file is removed.
C30_StrictSizeSelection ==
    [][\A size \in SelectSizes :
          (CompactCycle(size) /\ result' = "ok") =>
              /\ {inputs'[j] : j \in 1..Len(inputs')} = BelowThreshold(disk, size)
              /\ DOMAIN disk \ DOMAIN disk' = BelowThreshold(disk, size)
              /\ \A p \in DOMAIN disk \ BelowThreshold(disk, size) :
                     p[2] \in {"db", "wal"} => disk'[p] = disk[p]]_vars

\* A compaction has removed a data file and left a data file that was not
\* below the threshold, and a log segment smaller than the removed file.
C30_Witness ==
    /\ compactions >= 1
    /\ result = "ok"
    /\ inputs # <<>>
    /\ \E p \in GetFilesWithExt(disk, "db") : p \in DOMAIN dir_before
    /\ \E p \in GetFilesWithExt(disk, "wal") :
           \E j \in 1..Len(inputs) : Len(disk[p]) < Len(dir_before[inputs[j]])

(***************************************************************************)
(* SpecUnlink: SSTables are written into the directory and a compaction    *)
(* runs in which remove_file fails for one of the selected files.          *)
(***************************************************************************)
InitUnlink == InitCompact

\* Compaction::compact runs with threshold size; the removal of the
\* selected file p returns an error.
CompactUnlinkFault(size) ==
    /\ compactions < MaxCompactions
    /\ faults < MaxFaults
    /\ clock + 1 <= ClockLimit
    /\ \E files \in {Selected(disk, size)} :
       \E i \in 1..Len(files) :
       \E c \in {Compact(disk, clock, size, {files[i]})} :
          /\ disk' = c.disk
          /\ clock' = c.clock
          /\ result' = IF c.ok THEN "ok" ELSE "err"
          /\ out' = c.path
          /\ to_be_deleted_keys' = c.keys
          /\ unremoved' = {files[i]}
          /\ inputs' = files
    /\ before' = None
    /\ expect' = None
    /\ steps' = <<>>
    /\ handled' = <<>>
    /\ UNCHANGED compactor
    /\ compactions' = compactions + 1
    /\ faults' = faults + 1
    /\ dir_before' = disk
    /\ UNCHANGED <<wal, mem_table, max_mem_table_size, task, nops, crashes>>
    /\ UNCHANGED walGhost
    /\ UNCHANGED facadeGhost
    /\ UNCHANGED unitVars

NextUnlink ==
    \/ \E table \in Tables : SelectWrite(table)
    \/ \E size \in CompactionSizes : CompactUnlinkFault(size)

SpecUnlink == InitUnlink /\ [][NextUnlink]_vars

\* The index at path holds none of the keys whose tombstone the compaction
\* met.
Patched(d, path) ==
    \A j \in 1..Len(to_be_deleted_keys) :
        to_be_deleted_keys[j] \notin DOMAIN IndexLoad(d, path).indexes

\* C31: when the removal of one selected data file fails in a compaction,
\* that file stays and every other selected file is removed, every index
\* file of the directory has lost the keys whose tombstone the compaction
\* met, and compact() returns Ok.
C31_UnlinkFailureTolerated ==
    unremoved # {} =>
        /\ result = "ok"
        /\ \A j \in 1..Len(inputs) :
               inputs[j] \in DOMAIN disk <=> inputs[j] \in unremoved
        /\ \A p \in GetFilesWithExt(disk, "idx") : Patched(disk, p)

\* The removal of the newer of two selected files failed, the older is
\* removed, and the index of an input that held a key as live has lost it
\* to a tombstone of the other input.
C31_Witness ==
    /\ Len(inputs) = 2
    /\ unremoved = {inputs[1]}
    /\ inputs[2] \notin DOMAIN disk
    /\ result = "ok"
    /\ to_be_deleted_keys # <<>>
    /\ \E p \in GetFilesWithExt(dir_before, "idx") :
           /\ ~Patched(dir_before, p)
           /\ Patched(disk, p)

(***************************************************************************)
(* C32.  Tombstones of the MemTable, on Spec.                              *)
(***************************************************************************)
\* The entries without the one of key.
Without(entries, key) == SelectSeq(entries, LAMBDA e : e.key # key)

\* C32: a Database::delete(key) returns Ok(1), whether the MemTable held
\* the key or not; when the call flushes no MemTable, MemTable::get(key)
\* returns afterwards the tombstone entry, with no value and the timestamp
\* of the delete; and when the MemTable did not hold the key, the tombstone
\* is a new entry at the sorted position: the other entries keep their
\* order, the length grows by 1 and the size by len(key) + 17.
C32_TombstoneStored ==
    [][\A key \in Keys :
          Delete(key) =>
              /\ result' = "ok"
              /\ flushes' = flushes =>
                     /\ MemTableGet(mem_table', key)
                            = Some(Entry(key, None, task'.timestamp))
                     /\ ~GetIndex(mem_table, key).found =>
                            /\ Len(mem_table'.entries)
                                   = Len(mem_table.entries) + 1
                            /\ mem_table'.size
                                   = mem_table.size + Len(key) + 17
                            /\ Without(mem_table'.entries, key)
                                   = mem_table.entries
                            /\ \A i \in 1..(Len(mem_table'.entries) - 1) :
                                   SeqLess(mem_table'.entries[i].key,
                                           mem_table'.entries[i + 1].key)]_vars

\* Three calls put three entries into the MemTable; the last one is a
\* delete, of the key in the middle, and it returned Ok.
C32_Witness ==
    /\ nops = 3
    /\ flushes = 0
    /\ deletes >= 1
    /\ result = "ok"
    /\ task.call.kind = "delete"
    /\ Len(mem_table.entries) = 3
    /\ mem_table.entries[2] = Entry(task.call.key, None, task.timestamp)
    /\ MemTableGet(mem_table, task.call.key) = Some(mem_table.entries[2])

(***************************************************************************)
(* SpecDamage: an earlier process wrote SSTables into the directory and    *)
(* stopped inside the write of an index file, which holds a part of its    *)
(* bytes only; then the Database is opened on the directory.               *)
(***************************************************************************)
InitDamage == InitWal

\* The index files the earlier process may have written.
DamagePaths == {<<t, "idx">> : t \in ClockStart..ClockLimit}

\* A MemTable was flushed into a new SSTable by the earlier process.
DamageWrite(table) ==
    /\ task.pc = "closed"
    /\ nops < MaxDamageTables
    /\ WriteSSTable(table)

\* SSTableIndex::persist, its write_all interrupted by the stop: the index
\* file index_path holds the first n bytes of the serialized map.
DamageCut(index_path) ==
    /\ task.pc = "closed"
    /\ faults < MaxFaults
    /\ index_path \in DOMAIN disk
    /\ \E n \in 1..(Len(disk[index_path]) - 1) :
           disk' = [disk EXCEPT ![index_path] = SubSeq(@, 1, n)]
    /\ faults' = faults + 1
    /\ UNCHANGED <<clock, wal, mem_table, max_mem_table_size, task, result,
                   nops, crashes>>
    /\ UNCHANGED walGhost
    /\ UNCHANGED facadeGhost
    /\ UNCHANGED compactGhost
    /\ UNCHANGED unitVars

NextDamage ==
    \/ \E table \in Tables : DamageWrite(table)
    \/ \E index_path \in DamagePaths : DamageCut(index_path)
    \/ RotRestore

SpecDamage == InitDamage /\ [][NextDamage]_vars

\* The index file at index_path is not empty and bincode cannot decode it.
Undecodable(d, index_path) ==
    /\ Len(d[index_path]) > 0
    /\ ~Deserialize(d[index_path]).ok

\* C33: while an index file of the directory is not empty and cannot be
\* deserialized, loading it fails, SSTableReader::new and
\* SSTableWriter::new on its data file fail, and no open of the Database
\* on the directory returns Ok.
C33_UndecodableIndexStopsOpen ==
    \A p \in GetFilesWithExt(disk, "idx") :
        Undecodable(disk, p) =>
            /\ ~IndexLoad(disk, p).ok
            /\ ~SSTableReaderNew(disk, DbPath(p[1])).ok
            /\ ~SSTableWriterNew(disk, DbPath(p[1])).ok
            /\ ~(task.pc = "idle" /\ result = "ok")

(***************************************************************************)
(* SpecScan: SSTables are written into the directory and one of them is    *)
(* scanned with a handler that may fail in one of its calls.               *)
(***************************************************************************)
InitScan == InitCompact

\* The call in which the handler fails; 0: in none.
FailAt == 0..MaxScanCalls

\* SSTableReader::new(path), then scan(handler).
Scan(fail_at) ==
    /\ compactions < MaxCompactions
    /\ \E path \in GetFilesWithExt(disk, "db") :
       \E rn \in {SSTableReaderNew(disk, path)} :
          /\ rn.ok
          /\ \E s \in {SSTableReaderScanWith(rn.disk, rn.reader,
                                             SortKeys(DOMAIN rn.reader.index),
                                             fail_at, <<>>)} :
                /\ handled' = s.calls
                /\ result' = IF s.ok THEN "ok" ELSE "err"
                /\ fail_at > 0 => ~s.ok
          /\ disk' = rn.disk
          /\ inputs' = <<path>>
    /\ compactions' = compactions + 1
    /\ UNCHANGED <<before, expect, out, dir_before, steps, unremoved,
                   to_be_deleted_keys, compactor>>
    /\ UNCHANGED faults
    /\ UNCHANGED <<clock, wal, mem_table, max_mem_table_size, task, nops,
                   crashes>>
    /\ UNCHANGED walGhost
    /\ UNCHANGED facadeGhost
    /\ UNCHANGED unitVars

NextScan ==
    \/ \E table \in Tables : SelectWrite(table)
    \/ \E fail_at \in FailAt : Scan(fail_at)

SpecScan == InitScan /\ [][NextScan]_vars

\* The index of the scanned file.
ScannedIndex == IndexLoad(disk, GetIndexPath(inputs[1])).indexes

\* What decodes at the offset the scanned file's index has for key.
EntryAt(key) ==
    LET x == ReadFrom(disk[inputs[1]], ScannedIndex[key], Len(disk[inputs[1]]))
    IN  IF x.ok THEN Some(x.entry) ELSE None

\* The keys of the scanned file's index at whose offset an entry decodes,
\* in ascending order.
Decoding == SelectSeq(SortKeys(DOMAIN ScannedIndex), LAMBDA k : IsSome(EntryAt(k)))

\* C34: a scan calls its handler with the entries of the keys of the index
\* whose entry decodes, one call for each, in ascending order of the keys;
\* a scan whose handler never fails returns Ok after the call for the last
\* of them; a failed call of the handler is the last call, and the scan
\* returns the failure.
C34_ScanOrderAndShortCircuit ==
    (compactions >= 1 /\ inputs # <<>>) =>
        /\ Len(handled) <= Len(Decoding)
        /\ \A i \in 1..Len(handled) :
               /\ handled[i].entry = Unwrap(EntryAt(Decoding[i]))
               /\ i < Len(handled) => handled[i].ok
        /\ result = "ok" <=> \A i \in 1..Len(handled) : handled[i].ok
        /\ result = "ok" => Len(handled) = Len(Decoding)

\* The index of the scanned file has three keys, of which two decode; the
\* handler failed in its first call and the scan returned the failure.
C34_Witness ==
    /\ compactions >= 1
    /\ inputs # <<>>
    /\ result = "err"
    /\ Len(handled) = 1
    /\ ~handled[1].ok
    /\ Len(Decoding) = 2
    /\ Cardinality(DOMAIN ScannedIndex) = 3

(***************************************************************************)
(* SpecSchedule: the compaction scheduler of the server (scheduler.rs) is  *)
(* spawned and runs beside the flushes that write SSTables.  task.pc is    *)
(* the position of Scheduler::perform.                                     *)
(***************************************************************************)
InitSchedule == InitCompact

\* Scheduler::new("./db", 50 * 1024 * 1024): every SSTable is below it.
compact_limit == LargeCompactionSize

\* A scheduler that returns from perform when a cycle has failed.
AfterCycleReturnsOnError(ok) == IF ok THEN "sleep" ELSE "returned"

\* Scheduler::perform after compact() has returned: the error is logged
\* and the loop goes to its next sleep.
AfterCycle(ok) == "sleep"

\* main: tokio::spawn(scheduler.perform()).
ScheduleSpawn ==
    /\ task.pc = "idle"
    /\ task' = [task EXCEPT !.pc = "sleep"]
    /\ UNCHANGED <<disk, clock, wal, mem_table, max_mem_table_size, result,
                   nops, crashes>>
    /\ UNCHANGED faults
    /\ UNCHANGED walGhost
    /\ UNCHANGED facadeGhost
    /\ UNCHANGED compactGhost
    /\ UNCHANGED unitVars

\* A MemTable is flushed into a new SSTable by the Database.
ScheduleWrite(table) ==
    /\ nops < MaxScheduleTables
    /\ WriteSSTable(table)

\* tokio::time::sleep(60 s) returns.
ScheduleWake ==
    /\ task.pc = "sleep"
    /\ task' = [task EXCEPT !.pc = "compact"]
    /\ UNCHANGED <<disk, clock, wal, mem_table, max_mem_table_size, result,
                   nops, crashes>>
    /\ UNCHANGED faults
    /\ UNCHANGED walGhost
    /\ UNCHANGED facadeGhost
    /\ UNCHANGED compactGhost
    /\ UNCHANGED unitVars

\* Scheduler::perform, the end of a turn of the loop: compact() has
\* returned c.
ScheduleReturn(c) ==
    /\ disk' = c.disk
    /\ clock' = c.clock
    /\ out' = c.path
    /\ result' = IF c.ok THEN "ok" ELSE "err"
    /\ task' = [task EXCEPT !.pc = AfterCycle(c.ok)]
    /\ to_be_deleted_keys' = c.keys
    /\ compactions' = compactions + (IF c.disk # disk THEN 1 ELSE 0)
    /\ inputs' = Selected(disk, compact_limit)
    /\ dir_before' = disk
    /\ UNCHANGED <<before, expect, steps, unremoved, handled, compactor>>
    /\ UNCHANGED <<wal, mem_table, max_mem_table_size, nops, crashes>>
    /\ UNCHANGED faults
    /\ UNCHANGED walGhost
    /\ UNCHANGED facadeGhost
    /\ UNCHANGED unitVars

\* Scheduler::perform, one turn of the loop after the sleep:
\* Compaction::new(dir, compact_limit, "db").compact() fails in the
\* listing of the directory, or runs to its end, as long as the clock and
\* the number of compactions that select files allow.
ScheduleCycle ==
    /\ task.pc = "compact"
    /\ \/ ScheduleReturn([ok |-> FALSE, disk |-> disk, clock |-> clock,
                          path |-> out, keys |-> <<>>])
       \/ /\ \/ Selected(disk, compact_limit) = <<>>
             \/ compactions < MaxCompactions /\ clock + 1 <= ClockLimit
          /\ \E c \in {Compact(disk, clock, compact_limit, {})} :
                 ScheduleReturn(c)

NextSchedule ==
    \/ ScheduleSpawn
    \/ \E table \in Tables : ScheduleWrite(table)
    \/ ScheduleWake
    \/ ScheduleCycle

\* The spawned task is run, the timer fires and compact() returns.
SpecSchedule ==
    /\ InitSchedule
    /\ [][NextSchedule]_vars
    /\ WF_vars(ScheduleSpawn)
    /\ WF_vars(ScheduleWake)
    /\ WF_vars(ScheduleCycle)

\* C35: the scheduler sleeps and calls compact() again and again, for
\* ever, whether the cycles before returned Ok or an error.
C35_SchedulerNeverStops ==
    /\ []<>(task.pc = "sleep")
    /\ []<>(task.pc = "compact")

\* A cycle has returned an error and the scheduler, after its sleep, is
\* about to call compact() again.
C35_Witness ==
    /\ task.pc = "compact"
    /\ result = "err"
    /\ compactions >= 1

(***************************************************************************)
(* SpecRace: the scheduler's compact() runs as a task of its own beside    *)
(* the calls of the Database, on the same directory; a step of the one may *)
(* come between any two steps of the other.                                *)
(***************************************************************************)
InitRace == Init

RaceSet(key, value) ==
    /\ nops < MaxRaceOps
    /\ CrashSet(key, value)

RaceDelete(key) ==
    /\ nops < MaxRaceOps
    /\ CrashDelete(key)

\* The compact() in progress takes one step.
RaceCompact ==
    /\ compactor.pc # "returned"
    /\ compactor.pc = "idle" =>
           /\ compactions < MaxCompactions
           /\ clock + 1 <= ClockLimit
    /\ \E c \in {CompactorStep(disk, clock, compactor, compact_limit)} :
          /\ disk' = c.disk
          /\ clock' = c.clock
          /\ compactor' = c.compactor
    /\ compactions' = compactions + (IF compactor.pc = "idle" THEN 1 ELSE 0)
    /\ UNCHANGED <<before, expect, out, dir_before, inputs, steps, unremoved,
                   to_be_deleted_keys, handled>>
    /\ UNCHANGED <<wal, mem_table, max_mem_table_size, task, result, nops,
                   crashes>>
    /\ UNCHANGED faults
    /\ UNCHANGED walGhost
    /\ UNCHANGED facadeGhost
    /\ UNCHANGED unitVars

NextRace ==
    \/ \E w \in Writes : RaceSet(w[1], w[2])
    \/ \E key \in Keys : RaceDelete(key)
    \/ CrashStep
    \/ RaceCompact

SpecRace == InitRace /\ [][NextRace]_vars

\* The compact() has returned Ok and no call of the Database is in
\* progress.
BothFinished ==
    /\ compactor.pc = "returned"
    /\ compactor.ok
    /\ task.pc = "idle"

\* C36: when a compact() that ran beside the calls of the Database,
\* MemTable flushes included, has returned and no call is in progress,
\* get(key) returns for every key the result of the last acknowledged call
\* on it.
C36_RaceLosesNoAckedWrite ==
    BothFinished =>
        \A key \in Keys \ unacked : IsSome(acked[key]) => GetsAcked(key)

(***************************************************************************)
(* C37.  A get beside a compaction cycle, on SpecCompact: the get lists    *)
(* the data files, the cycle runs, the get opens and reads the files it    *)
(* listed.  The MemTable is empty.                                         *)
(***************************************************************************)
\* The directory d gives the live entry e for key.
GivesLive(d, key, e) == Query(d, key) = Some(e) /\ ~IsDeleted(e)

\* C37: a key that has the same live entry in the SSTables before and
\* after a compaction cycle is returned with that entry by a get whose
\* querier listed the directory before the cycle and reads after it.
C37_GetBesideCompaction ==
    (compactions >= 1 /\ result = "ok" /\ inputs # <<>>) =>
        \A key \in Keys :
            (/\ IsSome(Query(dir_before, key))
             /\ GivesLive(dir_before, key, Unwrap(Query(dir_before, key)))
             /\ GivesLive(disk, key, Unwrap(Query(dir_before, key)))) =>
                StaleQuery(key) = Query(disk, key)

(***************************************************************************)
(* C38.  One log segment, on SpecCrash.                                    *)
(***************************************************************************)
\* C38: whenever the Database is open and no call is in progress, the last
\* open or call having returned Ok, the directory holds one .wal file, and
\* it is the file Database.wal appends to.
C38_SingleActiveSegment ==
    (task.pc = "idle" /\ result = "ok") =>
        GetFilesWithExt(disk, "wal") = {wal.path}

\* The Database has just been opened again after a stop, on a directory
\* with the segment of the stopped process: its records are in the
\* MemTable and in the new segment, the one file left.
C38_Witness ==
    /\ Reopened
    /\ result = "ok"
    /\ mem_table.entries # <<>>
    /\ Len(disk[wal.path]) > 0
    /\ GetFilesWithExt(disk, "wal") = {wal.path}

(***************************************************************************)
(* C39.  A call that returned an error, on SpecCrash: the flush of the     *)
(* MemTable that follows the write may fail.                               *)
(***************************************************************************)
\* The entry of the call that returned last.
CallEntry ==
    Entry(task.call.key,
          IF task.call.kind = "set" THEN Some(task.call.value) ELSE None,
          task.timestamp)

\* C39: when a set or delete has returned an error, the MemTable does not
\* hold the entry of that call, and get(key) does not return it.
C39_FailedWriteInvisible ==
    (task.pc = "idle" /\ result = "err" /\ task.call.kind # "none") =>
        /\ MemTableGet(mem_table, task.call.key) # Some(CallEntry)
        /\ IsSome(DatabaseGet(M, task.call.key)) =>
               Unwrap(DatabaseGet(M, task.call.key)).timestamp # task.timestamp

(***************************************************************************)
(* C40.  The empty value, on Spec.                                         *)
(***************************************************************************)
\* C40: a key whose last call was a set with the empty byte string is
\* returned by get as a present entry with an empty value, whether the
\* entry is in the MemTable or was flushed to an SSTable; a key is
\* not-present only when it was never set or its last call was a delete.
C40_EmptyValueIsPresent ==
    \A key \in Keys :
        /\ (IsSome(acked[key]) /\ Unwrap(acked[key]).value = Some(<<>>)) =>
               /\ IsSome(DatabaseGet(M, key))
               /\ Unwrap(DatabaseGet(M, key)).value = <<>>
        /\ ~IsSome(DatabaseGet(M, key)) =>
               \/ ~IsSome(acked[key])
               \/ IsDeleted(Unwrap(acked[key]))
====
